---------------------------- MODULE Spec2Model ----------------------------
(***************************************************************************)
(* Model of political_analysis_sdk: the response decoding of the three     *)
(* record facets (questions, bias, sentiment), the summary facet and the   *)
(* orchestration in analyze_text / analyze_text_file.                      *)
(*                                                                         *)
(* Conventions                                                             *)
(*  - a JSON value is a tagged record (JNull, JBool, JNum, JStr, JArr,     *)
(*    JObj); numbers are held in hundredths (0.95 is 95);                  *)
(*  - a reply text is a sequence of tokens: whitespace, prose, a complete  *)
(*    JSON document, or a JSON document cut off before its end;            *)
(*  - a Python call that can raise returns [ok |-> FALSE, exc |-> class]   *)
(*    instead of a value.                                                  *)
(***************************************************************************)
EXTENDS Integers, Sequences, FiniteSets, TLC

(***************************************************************************)
(* Bounds of the model.                                                    *)
(***************************************************************************)
\* longest array of entries in a reply handed to one facet decoder
MaxEntries == 3
\* longest array of entries in a reply during a whole analysis
MaxBatch == 2

(***************************************************************************)
(* JSON values as json.loads builds them.                                  *)
(***************************************************************************)
JNull == [t |-> "null"]
JBool(b) == [t |-> "bool", b |-> b]
JNum(n) == [t |-> "num", n |-> n]
JStr(s) == [t |-> "str", s |-> s]
JArr(a) == [t |-> "arr", a |-> a]
JObj(o) == [t |-> "obj", o |-> o]

\* dict.get(key) without the default: an absent key reads as None
GetNoDefault(d, key, default) == IF key \in DOMAIN d.o THEN d.o[key] ELSE JNull

\* dict.get(key, default) on a parsed JSON object
Get(d, key, default) == IF key \in DOMAIN d.o THEN d.o[key] ELSE default

\* the characters of the strings the replies hold as the value of a facet key
Chars(s) ==
    CASE s = "" -> <<>>
      [] s = "n/a" -> <<"n", "/", "a">>
      [] OTHER -> <<s>>

RECURSIVE SetToSeq(_)
SetToSeq(S) ==
    IF S = {} THEN <<>>
    ELSE LET x == CHOOSE y \in S : TRUE IN <<x>> \o SetToSeq(S \ {x})

\* an iteration that rejects an empty array
IterateNonEmpty(v) ==
    IF v.t = "arr" /\ v.a # <<>> THEN [ok |-> TRUE, items |-> v.a]
    ELSE [ok |-> FALSE, exc |-> "ValueError"]

\* what a Python for-loop iterates over: [ok, items], or TypeError when the
\* value is not iterable
Iterate(v) ==
    CASE v.t = "arr" -> [ok |-> TRUE, items |-> v.a]
      [] v.t = "str" -> [ok |-> TRUE,
                         items |-> [i \in 1..Len(Chars(v.s)) |-> JStr(Chars(v.s)[i])]]
      [] v.t = "obj" -> [ok |-> TRUE,
                         items |-> LET ks == SetToSeq(DOMAIN v.o)
                                   IN [i \in 1..Len(ks) |-> JStr(ks[i])]]
      [] OTHER -> [ok |-> FALSE, exc |-> "TypeError"]

(***************************************************************************)
(* Reply texts.                                                            *)
(***************************************************************************)
WS == [k |-> "ws"]
Prose(p) == [k |-> "prose", p |-> p]
Json(j) == [k |-> "json", j |-> j]
Cut(j) == [k |-> "cut", j |-> j]

RECURSIVE lstrip(_)
lstrip(text) ==
    IF text # <<>> /\ Head(text) = WS THEN lstrip(Tail(text)) ELSE text

RECURSIVE rstrip(_)
rstrip(text) ==
    IF text # <<>> /\ text[Len(text)] = WS
    THEN rstrip(SubSeq(text, 1, Len(text) - 1))
    ELSE text

\* str.strip()
strip(text) == rstrip(lstrip(text))

\* a lenient parser: the first JSON document found anywhere in the text,
\* complete or cut off
json_loads_lenient(content) ==
    LET docs == SelectSeq(content, LAMBDA x : x.k \in {"json", "cut"})
    IN IF docs # <<>>
       THEN [ok |-> TRUE, data |-> docs[1].j]
       ELSE [ok |-> FALSE, exc |-> "JSONDecodeError"]

\* json.loads(content): the parsed value, or JSONDecodeError unless the text is
\* one complete JSON document (whitespace around it is allowed)
json_loads(content) ==
    LET c == strip(content)
    IN IF Len(c) = 1 /\ c[1].k = "json"
       THEN [ok |-> TRUE, data |-> c[1].j]
       ELSE [ok |-> FALSE, exc |-> "JSONDecodeError"]

(***************************************************************************)
(* models.py: the two enumerations, looked up by value.                    *)
(***************************************************************************)
QuestionTags == {"critical", "confirming", "follow_up", "neutral"}
SentimentTags == {"positive", "negative", "neutral", "mixed"}

EnumMember(cls, tag) == [t |-> "enum", cls |-> cls, value |-> tag]

\* QuestionType(value): the member with that value, or ValueError
QuestionType(value) ==
    IF value.t = "str" /\ value.s \in QuestionTags
    THEN [ok |-> TRUE, val |-> EnumMember("QuestionType", value.s)]
    ELSE [ok |-> FALSE, exc |-> "ValueError"]

\* SentimentType(value): the member with that value, or ValueError
SentimentType(value) ==
    IF value.t = "str" /\ value.s \in SentimentTags
    THEN [ok |-> TRUE, val |-> EnumMember("SentimentType", value.s)]
    ELSE [ok |-> FALSE, exc |-> "ValueError"]

CRITICAL == EnumMember("QuestionType", "critical")
CONFIRMING == EnumMember("QuestionType", "confirming")

(***************************************************************************)
(* Logging: one record per logger call.                                    *)
(***************************************************************************)
LogRec(level, msg, facet, detail) ==
    [level |-> level, msg |-> msg, facet |-> facet, detail |-> detail]

(***************************************************************************)
(* core.py: the per-entry bodies of the three decoding loops.              *)
(***************************************************************************)
\* list.insert(0, item)
ListAppendFront(list, item) == <<item>> \o list

\* list.append(item)
ListAppend(list, item) == Append(list, item)

\* a question entry that must carry its type
QuestionEntryTagRequired(q_data) ==
    IF q_data.t # "obj" THEN [ok |-> FALSE, exc |-> "AttributeError"]
    ELSE IF "type" \notin DOMAIN q_data.o THEN [ok |-> FALSE, exc |-> "KeyError"]
    ELSE LET question_type == QuestionType(q_data.o["type"])
         IN IF ~question_type.ok THEN question_type
            ELSE [ok |-> TRUE,
                  rec |-> [question_text |-> Get(q_data, "question", JStr("")),
                           question_type |-> question_type.val,
                           confidence |-> Get(q_data, "confidence", JNum(0)),
                           reasoning |-> Get(q_data, "reasoning", JStr("")),
                           context |-> Get(q_data, "context", JStr(""))]]

\* a question entry whose confidence is clamped into [0, 1]
QuestionEntryClamped(q_data) ==
    IF q_data.t # "obj" THEN [ok |-> FALSE, exc |-> "AttributeError"]
    ELSE LET question_type == QuestionType(Get(q_data, "type", JStr("neutral")))
             c == Get(q_data, "confidence", JNum(0))
         IN IF ~question_type.ok THEN question_type
            ELSE [ok |-> TRUE,
                  rec |-> [question_text |-> Get(q_data, "question", JStr("")),
                           question_type |-> question_type.val,
                           confidence |-> IF c.t = "num" /\ c.n > 100 THEN JNum(100) ELSE c,
                           reasoning |-> Get(q_data, "reasoning", JStr("")),
                           context |-> Get(q_data, "context", JStr(""))]]

\* lines 144-151: one question entry -> [ok, rec] or the exception raised
QuestionEntry(q_data) ==
    IF q_data.t # "obj" THEN [ok |-> FALSE, exc |-> "AttributeError"]
    ELSE LET question_type == QuestionType(Get(q_data, "type", JStr("neutral")))
         IN IF ~question_type.ok THEN question_type
            ELSE [ok |-> TRUE,
                  rec |-> [question_text |-> Get(q_data, "question", JStr("")),
                           question_type |-> question_type.val,
                           confidence |-> Get(q_data, "confidence", JNum(0)),
                           reasoning |-> Get(q_data, "reasoning", JStr("")),
                           context |-> Get(q_data, "context", JStr(""))]]

\* lines 191-198: one bias entry
BiasEntry(b_data) ==
    IF b_data.t # "obj" THEN [ok |-> FALSE, exc |-> "AttributeError"]
    ELSE [ok |-> TRUE,
          rec |-> [adjective |-> Get(b_data, "adjective", JStr("")),
                   target_person |-> Get(b_data, "target_person", JStr("")),
                   bias_type |-> Get(b_data, "bias_type", JStr("")),
                   confidence |-> Get(b_data, "confidence", JNum(0)),
                   reasoning |-> Get(b_data, "reasoning", JStr("")),
                   context |-> Get(b_data, "context", JStr(""))]]

\* lines 238-247: one sentiment entry
SentimentEntry(s_data) ==
    IF s_data.t # "obj" THEN [ok |-> FALSE, exc |-> "AttributeError"]
    ELSE LET sentiment == SentimentType(Get(s_data, "sentiment", JStr("neutral")))
         IN IF ~sentiment.ok THEN sentiment
            ELSE [ok |-> TRUE,
                  rec |-> [entity_name |-> Get(s_data, "entity_name", JStr("")),
                           entity_type |-> Get(s_data, "entity_type", JStr("")),
                           sentiment |-> sentiment.val,
                           confidence |-> Get(s_data, "confidence", JNum(0)),
                           reasoning |-> Get(s_data, "reasoning", JStr("")),
                           context |-> Get(s_data, "context", JStr("")),
                           supporting_quotes |->
                               Get(s_data, "supporting_quotes", JArr(<<>>))]]

\* an entry body that reads an item which is no object as an empty object
EntryLenient(facet, e) ==
    LET o == IF e.t = "obj" THEN e ELSE JObj(<<>>)
    IN CASE facet = "questions" -> QuestionEntry(o)
         [] facet = "bias" -> BiasEntry(o)
         [] facet = "sentiment" -> SentimentEntry(o)

\* the entry body of a facet
Entry(facet, e) ==
    CASE facet = "questions" -> QuestionEntry(e)
      [] facet = "bias" -> BiasEntry(e)
      [] facet = "sentiment" -> SentimentEntry(e)

FacetKey(facet) ==
    CASE facet = "questions" -> "questions"
      [] facet = "bias" -> "biased_adjectives"
      [] facet = "sentiment" -> "entity_sentiments"

RecordFacets == {"questions", "bias", "sentiment"}
FacetOrder == <<"questions", "bias", "sentiment", "summary">>

(***************************************************************************)
(* prompts.py: the four templates.  An f-string formats its arguments, so  *)
(* rendering raises when the text is an object whose formatting raises.    *)
(***************************************************************************)
PyStr(s) == [py |-> "str", s |-> s]
Unformattable == [py |-> "unformattable"]

\* models.py lines 10 and 18: both classes derive from Enum alone
EnumBases(cls) == {"Enum"}

\* member == other in Python: an Enum compares by identity; only a class that
\* also derives from str compares its value with a string
EnumEq(member, other) ==
    IF "str" \in EnumBases(member.cls) THEN other = PyStr(member.value)
    ELSE other = member

RecordPrompt(template, text, language) ==
    IF text.py = "str"
    THEN [ok |-> TRUE,
          prompt |-> [template |-> template, text |-> text.s, language |-> language]]
    ELSE [ok |-> FALSE, exc |-> "TypeError"]

get_question_analysis_prompt(text, language) ==
    RecordPrompt("questions", text, language)
get_bias_analysis_prompt(text, language) == RecordPrompt("bias", text, language)
get_sentiment_analysis_prompt(text, language) ==
    RecordPrompt("sentiment", text, language)

get_summary_prompt(analysis_results, language) ==
    [ok |-> TRUE,
     prompt |-> [template |-> "summary", language |-> language,
                 total_questions |-> analysis_results.total_questions,
                 critical_questions |-> analysis_results.critical_questions,
                 confirming_questions |-> analysis_results.confirming_questions,
                 biased_adjectives |-> Len(analysis_results.biased_adjectives),
                 entity_sentiments |-> Len(analysis_results.entity_sentiments)]]

\* a request that names the default model whatever the analyzer was given
CompletionRequestDefaultModel(self, prompt) ==
    [model |-> "gpt-4",
     messages |-> <<[role |-> "user", content |-> prompt]>>,
     temperature |-> self.temperature]

\* the keyword arguments of one litellm.completion call
CompletionRequest(self, prompt) ==
    [model |-> self.model_name,
     messages |-> <<[role |-> "user", content |-> prompt]>>,
     temperature |-> self.temperature]

(***************************************************************************)
(* core.py: the decoding loop and the three facet methods.  A facet        *)
(* returns [raised, sent, ret, log]: whether an exception left the method, *)
(* the gateway requests it issued, its return value and what it logged.    *)
(***************************************************************************)
\* the loop without its inner try: the first failing entry ends the method in
\* the outer handler, which returns an empty list
RECURSIVE DecodeLoopNoInnerTry(_, _, _, _)
DecodeLoopNoInnerTry(facet, items, i, acc) ==
    IF i > Len(items) THEN acc
    ELSE LET r == Entry(facet, items[i])
         IN IF r.ok
            THEN DecodeLoopNoInnerTry(facet, items, i + 1,
                   [ret |-> ListAppend(acc.ret, r.rec), log |-> acc.log])
            ELSE [ret |-> <<>>,
                  log |-> Append(acc.log, LogRec("ERROR", "Error analyzing", facet, r.exc))]

\* the for-loop of a facet: every entry is tried, a failing one is logged and
\* skipped
RECURSIVE DecodeLoop(_, _, _, _)
DecodeLoop(facet, items, i, acc) ==
    IF i > Len(items) THEN acc
    ELSE LET r == Entry(facet, items[i])
         IN DecodeLoop(facet, items, i + 1,
              IF r.ok
              THEN [ret |-> ListAppend(acc.ret, r.rec), log |-> acc.log]
              ELSE [ret |-> acc.ret,
                    log |-> Append(acc.log,
                              LogRec("WARNING", "Error processing data", facet, r.exc))])

\* a handler that logs and raises again
FacetCaughtReraise(facet, exc) ==
    [raised |-> TRUE, exc |-> exc, ret |-> <<>>,
     log |-> <<LogRec("ERROR", "Error analyzing", facet, exc)>>]

\* the handler of the facet's outer `except Exception`
FacetCaught(facet, exc) ==
    [raised |-> FALSE, ret |-> <<>>,
     log |-> <<LogRec("ERROR", "Error analyzing", facet, exc)>>]

\* a parse failure that is logged and raised again
ParseFailedReraise(facet, exc) ==
    [raised |-> TRUE, exc |-> exc, ret |-> <<>>,
     log |-> <<LogRec("ERROR", "Failed to parse JSON response", facet, exc)>>]

\* the handler of `except json.JSONDecodeError`
ParseFailed(facet, exc) ==
    [raised |-> FALSE, ret |-> <<>>,
     log |-> <<LogRec("ERROR", "Failed to parse JSON response", facet, exc),
               LogRec("ERROR", "Raw response content", facet, "content")>>]

\* an empty reply treated as a failure of the call
EmptyContentRaise(facet) ==
    [raised |-> TRUE, exc |-> "ValueError", ret |-> <<>>,
     log |-> <<LogRec("WARNING", "Empty response from LLM", facet, "")>>]

\* the branch `if not content`
EmptyContent(facet) ==
    [raised |-> FALSE, ret |-> <<>>,
     log |-> <<LogRec("WARNING", "Empty response from LLM", facet, "")>>]

\* response.choices[0].message.content.strip() on a gateway outcome: the
\* stripped text, or the exception the completion call or the expression raises
StrippedContent(outcome) ==
    CASE outcome.kind = "raise" -> [ok |-> FALSE, exc |-> outcome.exc]
      [] outcome.kind = "nochoices" -> [ok |-> FALSE, exc |-> "IndexError"]
      [] outcome.kind = "none" -> [ok |-> FALSE, exc |-> "AttributeError"]
      [] outcome.kind = "text" -> [ok |-> TRUE, content |-> strip(outcome.content)]

\* the body of the try block of a record facet, from the completion call on
FacetBody(facet, outcome) ==
    LET response == StrippedContent(outcome)
    IN IF ~response.ok THEN FacetCaught(facet, response.exc)
       ELSE LET content == response.content
            IN IF content = <<>> THEN EmptyContent(facet)
               ELSE LET parsed == json_loads(content)
                    IN IF ~parsed.ok THEN ParseFailed(facet, parsed.exc)
                       ELSE LET data == parsed.data
                            IN IF data.t # "obj"
                               THEN FacetCaught(facet, "AttributeError")
                               ELSE LET it == Iterate(Get(data, FacetKey(facet), JArr(<<>>)))
                                    IN IF ~it.ok THEN FacetCaught(facet, it.exc)
                                       ELSE [raised |-> FALSE] @@
                                            DecodeLoop(facet, it.items, 1,
                                                       [ret |-> <<>>, log |-> <<>>])

\* a facet method that repeats its request once when the first attempt fails
FacetMethodRetry(facet, self, rendered, outcome) ==
    IF ~rendered.ok
    THEN [raised |-> TRUE, exc |-> rendered.exc, sent |-> <<>>, ret |-> <<>>, log |-> <<>>]
    ELSE [sent |-> IF outcome.kind = "raise"
                   THEN <<CompletionRequest(self, rendered.prompt),
                          CompletionRequest(self, rendered.prompt)>>
                   ELSE <<CompletionRequest(self, rendered.prompt)>>] @@
         FacetBody(facet, outcome)

\* a facet method: render the prompt (outside the try), then the try block
FacetMethod(facet, self, rendered, outcome) ==
    IF ~rendered.ok
    THEN [raised |-> TRUE, exc |-> rendered.exc, sent |-> <<>>, ret |-> <<>>, log |-> <<>>]
    ELSE [sent |-> <<CompletionRequest(self, rendered.prompt)>>] @@
         FacetBody(facet, outcome)

analyze_questions(self, text, outcome) ==
    FacetMethod("questions", self,
                get_question_analysis_prompt(text, self.language), outcome)

analyze_bias(self, text, outcome) ==
    FacetMethod("bias", self, get_bias_analysis_prompt(text, self.language), outcome)

analyze_sentiment(self, text, outcome) ==
    FacetMethod("sentiment", self,
                get_sentiment_analysis_prompt(text, self.language), outcome)

\* _create_summary: the reply stripped, or one of two fixed fallback texts
\* an empty reply handed on as the summary
NoSummaryText == <<>>

EmptySummaryText == <<Prose("Kon geen samenvatting maken - lege reactie van het model.")>>
FailedSummaryText == <<Prose("Kon geen samenvatting maken vanwege een fout.")>>

create_summary(self, analysis_results, outcome) ==
    LET rendered == get_summary_prompt(analysis_results, self.language)
        response == StrippedContent(outcome)
    IN [raised |-> FALSE, sent |-> <<CompletionRequest(self, rendered.prompt)>>] @@
       (IF ~response.ok
        THEN [ret |-> FailedSummaryText,
              log |-> <<LogRec("ERROR", "Error creating summary", "summary", response.exc)>>]
        ELSE IF response.content = <<>>
        THEN [ret |-> EmptySummaryText,
              log |-> <<LogRec("WARNING", "Empty response from LLM", "summary", "")>>]
        ELSE [ret |-> response.content, log |-> <<>>])

(***************************************************************************)
(* core.py: the result objects analyze_text and analyze_text_file build.   *)
(***************************************************************************)
\* a count without its filter
CountTypeAll(question_analysis, question_type) == Len(question_analysis)

\* len([q for q in question_analysis if q.question_type == question_type])
RECURSIVE CountType(_, _)
CountType(question_analysis, question_type) ==
    IF question_analysis = <<>> THEN 0
    ELSE (IF Head(question_analysis).question_type = question_type THEN 1 ELSE 0)
         + CountType(Tail(question_analysis), question_type)

\* the dictionary handed to _create_summary
SummaryInput(question_analysis, bias_analysis, sentiment_analysis) ==
    [total_questions |-> Len(question_analysis),
     critical_questions |-> CountType(question_analysis, CRITICAL),
     confirming_questions |-> CountType(question_analysis, CONFIRMING),
     biased_adjectives |-> bias_analysis,
     entity_sentiments |-> sentiment_analysis]

\* metadata that always carries an error entry
MetadataWithError(self) ==
    [model_used |-> self.model_name, language |-> self.language,
     temperature |-> self.temperature, error |-> ""]

Metadata(self) ==
    [model_used |-> self.model_name, language |-> self.language,
     temperature |-> self.temperature]

AnalysisResult(source, self, question_analysis, bias_analysis, sentiment_analysis, summary) ==
    [text_file_path |-> source,
     total_questions |-> Len(question_analysis),
     critical_questions |-> CountType(question_analysis, CRITICAL),
     confirming_questions |-> CountType(question_analysis, CONFIRMING),
     biased_adjectives |-> bias_analysis,
     entity_sentiments |-> sentiment_analysis,
     question_analysis |-> question_analysis,
     summary |-> summary,
     metadata |-> Metadata(self)]

\* the result of the outer `except Exception` of analyze_text
ErrorResult(self, e) ==
    [text_file_path |-> "direct_text_input",
     total_questions |-> 0,
     critical_questions |-> 0,
     confirming_questions |-> 0,
     biased_adjectives |-> <<>>,
     entity_sentiments |-> <<>>,
     question_analysis |-> <<>>,
     summary |-> <<Prose("Fout tijdens analyse: "), Prose(e)>>,
     metadata |-> Metadata(self) @@ [error |-> e]]

(***************************************************************************)
(* The inputs: array entries, gateway outcomes, texts, files, analyzers.   *)
(***************************************************************************)
qCritical ==
    JObj([question |-> JStr("Q1"), type |-> JStr("critical"), confidence |-> JNum(95),
          reasoning |-> JStr("R1"), context |-> JStr("C1")])
qConfirming == JObj([question |-> JStr("Q2"), type |-> JStr("confirming")])
qFollowUp ==
    JObj([question |-> JStr("Q3"), type |-> JStr("follow_up"), confidence |-> JNum(150)])
qNoTag == JObj([question |-> JStr("Q4")])
qBadTag == JObj([question |-> JStr("Q5"), type |-> JStr("Critical")])
qNullTag == JObj([question |-> JStr("Q6"), type |-> JNull])
qNotObject == JStr("Q7")

bFull ==
    JObj([adjective |-> JStr("A1"), target_person |-> JStr("P1"),
          bias_type |-> JStr("negatief"), confidence |-> JNum(80),
          reasoning |-> JStr("R1"), context |-> JStr("C1")])
bMinimal == JObj([adjective |-> JStr("A2")])
bNotObject == JNull

sPositive ==
    JObj([entity_name |-> JStr("E1"), entity_type |-> JStr("party"),
          sentiment |-> JStr("positive"), confidence |-> JNum(90),
          reasoning |-> JStr("R1"), context |-> JStr("C1"),
          supporting_quotes |-> JArr(<<JStr("quote 1")>>)])
sMixed == JObj([entity_name |-> JStr("E2"), sentiment |-> JStr("mixed")])
sNoTag == JObj([entity_name |-> JStr("E3")])
sBadTag == JObj([entity_name |-> JStr("E4"), sentiment |-> JStr("very positive")])
sNotObject == JNum(7)

\* the entries a facet's reply is built from when the decoder is driven alone
EntryPool(facet) ==
    CASE facet = "questions" ->
           {qCritical, qConfirming, qFollowUp, qNoTag, qBadTag, qNullTag, qNotObject}
      [] facet = "bias" -> {bFull, bMinimal, bNotObject}
      [] facet = "sentiment" -> {sPositive, sMixed, sNoTag, sBadTag, sNotObject}

\* the entries a facet's reply is built from during a whole analysis
BatchPool(facet) ==
    CASE facet = "questions" -> {qCritical, qConfirming, qBadTag}
      [] facet = "bias" -> {bFull}
      [] facet = "sentiment" -> {sPositive, sBadTag}

Arrays(pool, n) == UNION {[1..m -> pool] : m \in 0..n}

Raise(exc) == [kind |-> "raise", exc |-> exc]
Text(content) == [kind |-> "text", content |-> content]
KeyObj(key, v) == JObj(key :> v)

\* an entry of the facet that decodes into a record
GoodEntry(facet) ==
    CASE facet = "questions" -> qCritical
      [] facet = "bias" -> bFull
      [] facet = "sentiment" -> sPositive

\* the reply the prompt asks for: one object, the facet's key, an array
Document(facet, entries) == Json(KeyObj(FacetKey(facet), JArr(entries)))

\* outcomes other than a well-formed reply: transport failures, malformed
\* envelopes, blank text, prose, JSON wrapped in prose, truncated JSON, JSON
\* of the wrong shape
PlainOutcomes(facet) ==
    {Raise("APIConnectionError"), Raise("APIError"),
     [kind |-> "nochoices"], [kind |-> "none"],
     Text(<<>>), Text(<<WS>>), Text(<<WS, WS>>),
     Text(<<Prose("Sorry, I cannot help.")>>),
     Text(<<Prose("Here is the JSON:"), Document(facet, <<GoodEntry(facet)>>)>>),
     Text(<<Document(facet, <<GoodEntry(facet)>>), WS, Prose("Hope this helps")>>),
     Text(<<Document(facet, <<>>), WS, Document(facet, <<GoodEntry(facet)>>)>>),
     Text(<<WS, Cut(KeyObj(FacetKey(facet), JArr(<<GoodEntry(facet)>>)))>>),
     Text(<<Json(JArr(<<GoodEntry(facet)>>))>>), Text(<<Json(JStr("n/a"))>>),
     Text(<<Json(JNum(1))>>), Text(<<Json(JNull)>>), Text(<<Json(JBool(TRUE))>>),
     Text(<<Json(KeyObj("result", JArr(<<GoodEntry(facet)>>)))>>),
     Text(<<WS, Json(JObj([status |-> JStr("ok")])), WS>>),
     Text(<<Json(KeyObj(FacetKey(facet), JNull))>>),
     Text(<<Json(KeyObj(FacetKey(facet), JNum(3)))>>),
     Text(<<Json(KeyObj(FacetKey(facet), JStr("n/a")))>>),
     Text(<<Json(KeyObj(FacetKey(facet), JStr("")))>>),
     Text(<<Json(KeyObj(FacetKey(facet), JObj([a |-> JNum(1), b |-> JNum(2)])))>>)}

ArrayOutcomes(facet, pool, n) ==
    {Text(<<Document(facet, a)>>) : a \in Arrays(pool, n)}

\* gateway outcomes of a record facet driven alone
DecoderOutcomes(facet) ==
    PlainOutcomes(facet)
      \cup ArrayOutcomes(facet, EntryPool(facet), MaxEntries)
      \cup {Text(<<WS, Document(facet, <<e>>), WS>>) : e \in EntryPool(facet)}

\* gateway outcomes of a record facet during a whole analysis
BatchOutcomes(facet) ==
    {Raise("APIConnectionError"), Text(<<Prose("Sorry, I cannot help.")>>),
     Text(<<Json(JObj([status |-> JStr("ok")]))>>)}
      \cup (IF facet = "questions" THEN {[kind |-> "none"], Text(<<WS>>)} ELSE {})
      \cup ArrayOutcomes(facet, BatchPool(facet), MaxBatch)

SummaryOutcomes ==
    {Raise("APIConnectionError"), [kind |-> "none"], Text(<<WS>>),
     Text(<<WS, Prose("Samenvatting"), WS>>)}

TextInputs == {PyStr("T1"), Unformattable}

\* the files analyze_text_file can be pointed at
Files ==
    [p \in {"speech.txt", "./speech.txt", "latin1.txt", "missing.txt"} |->
        CASE p \in {"speech.txt", "./speech.txt"} -> [kind |-> "utf8", content |-> "T1"]
          [] p = "latin1.txt" -> [kind |-> "undecodable"]
          [] p = "missing.txt" -> [kind |-> "missing"]]

\* str(Path(file_path))
PathStr(p) == IF p = "./speech.txt" THEN "speech.txt" ELSE p

Analyzer(model_name, language, temperature, base_url) ==
    [model_name |-> model_name, language |-> language, temperature |-> temperature,
     base_url |-> base_url]

None == [py |-> "None"]

\* the value of a keyword argument: the one passed, or the default of the signature
Arg(kwargs, name, default) == IF name \in DOMAIN kwargs THEN kwargs[name] ELSE default

\* `if api_key:` and `if base_url:` test truthiness: None and "" are both false
Truthy(v) == v # None /\ v # PyStr("")

\* the litellm module's settings when it has just been imported
ImportedLitellm == [api_key |-> None, api_base |-> None]

\* PoliticalStatementAnalyzer(**kwargs) run against the litellm module: the new
\* instance's attributes and the module's settings afterwards (lines 46-58)
PoliticalStatementAnalyzer(kwargs, module) ==
    LET api_key == Arg(kwargs, "api_key", None)
        base_url == Arg(kwargs, "base_url", None)
    IN [self |-> Analyzer(Arg(kwargs, "model_name", "gpt-4"),
                          Arg(kwargs, "language", "Dutch"),
                          Arg(kwargs, "temperature", 10), base_url),
        litellm |-> [api_key |-> IF Truthy(api_key) THEN api_key ELSE module.api_key,
                     api_base |-> IF Truthy(base_url) THEN base_url ELSE module.api_base]]

\* the keyword arguments the analyzer under study is constructed with: none, or all
InitArgs ==
    {<<>>,
     [model_name |-> "gpt-3.5-turbo", api_key |-> PyStr("sk-A"), language |-> "English",
      temperature |-> 50, base_url |-> PyStr("http://localhost:1234/v1")]}

\* the keyword arguments another part of the program constructs an analyzer with
OtherArgs ==
    {<<>>,
     [api_key |-> PyStr("sk-B")],
     [api_key |-> PyStr(""), base_url |-> PyStr("https://api.example.org/v1")],
     [model_name |-> "gpt-4o", api_key |-> PyStr("sk-B"),
      base_url |-> PyStr("https://api.example.org/v1")]}

Analyzers == {PoliticalStatementAnalyzer(kwargs, ImportedLitellm).self : kwargs \in InitArgs}

(***************************************************************************)
(* whisper_diarization_sdk/core.py: the constructor's search for the       *)
(* cloned repository.  A directory is known by the files it holds; a       *)
(* directory that does not exist holds none.                               *)
(***************************************************************************)
\* current_dir / ..., current_dir.parent / ..., Path(__file__).parent / ...
possible_paths ==
    <<"cwd/whisper-diarization", "parent/whisper-diarization", "package/whisper-diarization">>

ExplicitPath == "/opt/whisper-diarization"
Directories == {possible_paths[i] : i \in 1..Len(possible_paths)} \cup {ExplicitPath}

required_files == <<"diarize.py", "requirements.txt", "helpers.py">>
RequiredFiles == {required_files[i] : i \in 1..Len(required_files)}

\* lines 34-47: the first candidate that holds diarize.py, or None
FirstWithScript(fs) ==
    LET hits == {i \in 1..Len(possible_paths) : "diarize.py" \in fs[possible_paths[i]]}
    IN IF hits = {} THEN None
       ELSE PyStr(possible_paths[CHOOSE i \in hits : \A j \in hits : i <= j])

\* _validate_repository: the first required file that is missing, if any
validate_repository(path, fs) ==
    LET missing == {i \in 1..Len(required_files) : required_files[i] \notin fs[path]}
    IN IF missing = {} THEN [ok |-> TRUE]
       ELSE [ok |-> FALSE, exc |-> "FileNotFoundError",
             msg |-> <<"Required file ",
                       required_files[CHOOSE i \in missing : \A j \in missing : i <= j],
                       " not found in ", path>>]

\* WhisperDiarizer(whisper_diarization_path) on the file system fs
WhisperDiarizer(whisper_diarization_path, fs) ==
    LET found == IF whisper_diarization_path = None THEN FirstWithScript(fs)
                 ELSE whisper_diarization_path
    IN IF found = None
       THEN [ok |-> FALSE, exc |-> "FileNotFoundError",
             msg |-> <<"Could not find whisper-diarization repository. ",
                       "Please specify the path explicitly.">>]
       ELSE LET valid == validate_repository(found.s, fs)
            IN IF valid.ok THEN [ok |-> TRUE, self |-> [whisper_diarization_path |-> found.s]]
               ELSE valid

\* the file sets a candidate directory is tried with, and the layouts made of them
FileSets == {{}, {"diarize.py"}, {"requirements.txt", "helpers.py"}, RequiredFiles}
Layouts ==
    {fs \in [Directories -> FileSets \cup {{"diarize.py", "helpers.py"}}] :
        /\ \A i \in 1..Len(possible_paths) : fs[possible_paths[i]] \in FileSets
        /\ fs[ExplicitPath] \in {RequiredFiles, {"diarize.py", "helpers.py"}}}

(***************************************************************************)
(* whisper_diarization_sdk/core.py: diarize and its helpers.  A finished   *)
(* subprocess is [kind |-> "exit", returncode, stdout, stderr]; one that   *)
(* could not be started is [kind |-> "launch", exc].                       *)
(***************************************************************************)
Exited(returncode, stdout, stderr) ==
    [kind |-> "exit", returncode |-> returncode, stdout |-> stdout, stderr |-> stderr]
CannotLaunch(exc) == [kind |-> "launch", exc |-> exc]

\* the media files a caller may name: whether each exists, and its suffix
Media ==
    [f \in {"speech.wav", "debate.mp4", "DEBATE.MKV", "missing.mp4"} |->
        CASE f = "speech.wav" -> [exists |-> TRUE, suffix |-> ".wav"]
          [] f = "debate.mp4" -> [exists |-> TRUE, suffix |-> ".mp4"]
          [] f = "DEBATE.MKV" -> [exists |-> TRUE, suffix |-> ".MKV"]
          [] f = "missing.mp4" -> [exists |-> FALSE, suffix |-> ".mp4"]]

\* str.lower() on the suffixes in use
Lower(suffix) == IF suffix = ".MKV" THEN ".mkv" ELSE suffix

video_extensions == {".mp4", ".avi", ".mov", ".mkv", ".wmv", ".flv", ".webm", ".m4v", ".3gp"}

\* _is_video_file: lines 63-66
is_video_file(file_path) == Lower(Media[file_path].suffix) \in video_extensions

\* the names NamedTemporaryFile hands out: one that is not in use
TempNames == <<"/tmp/tmpa.wav", "/tmp/tmpb.wav", "/tmp/tmpc.wav", "/tmp/tmpd.wav">>
FreshTemp(existing) ==
    TempNames[CHOOSE i \in 1..Len(TempNames) :
                 /\ TempNames[i] \notin existing
                 /\ \A j \in 1..(i - 1) : TempNames[j] \in existing]

\* str(batch_size) and str(self.whisper_diarization_path / "diarize.py")
IntStr(n) == CASE n = 0 -> "0" [] n = 8 -> "8" [] n = 16 -> "16"
ScriptPath(dir) ==
    CASE dir = "cwd/whisper-diarization" -> "cwd/whisper-diarization/diarize.py"
      [] dir = "parent/whisper-diarization" -> "parent/whisper-diarization/diarize.py"
      [] dir = "package/whisper-diarization" -> "package/whisper-diarization/diarize.py"
      [] dir = ExplicitPath -> "/opt/whisper-diarization/diarize.py"

\* lines 82 and 96-103: the two ffmpeg command lines
FfmpegVersionCmd == <<"ffmpeg", "-version">>
FfmpegExtractCmd(video_file, temp_audio) ==
    <<"ffmpeg", "-i", video_file, "-vn", "-acodec", "pcm_s16le", "-ar", "16000",
      "-ac", "1", "-y", temp_audio>>

\* a command line that names the caller's file even when audio was extracted
DiarizeCmdOriginalFile(this, processing_file, args) ==
    <<"sys.executable", ScriptPath(this.whisper_diarization_path), "-a", args.audio_file,
      "--whisper-model", args.whisper_model, "--device", args.device,
      "--batch-size", IntStr(args.batch_size)>>
    \o (IF args.suppress_numerals THEN <<"--suppress_numerals">> ELSE <<>>)
    \o (IF Truthy(args.language) THEN <<"--language", args.language.s>> ELSE <<>>)

\* lines 155-168: the diarization command line
DiarizeCmd(this, processing_file, args) ==
    <<"sys.executable", ScriptPath(this.whisper_diarization_path), "-a", processing_file,
      "--whisper-model", args.whisper_model, "--device", args.device,
      "--batch-size", IntStr(args.batch_size)>>
    \o (IF args.suppress_numerals THEN <<"--suppress_numerals">> ELSE <<>>)
    \o (IF Truthy(args.language) THEN <<"--language", args.language.s>> ELSE <<>>)

\* a version probe whose launch failure is not caught
FfmpegProbeUncaught(outcome) ==
    CASE outcome.kind = "launch" -> [ok |-> FALSE, exc |-> outcome.exc, msg |-> <<>>]
      [] outcome.kind = "exit" /\ outcome.returncode # 0 ->
           [ok |-> FALSE, exc |-> "RuntimeError",
            msg |-> <<"ffmpeg is required for video processing. ",
                      "Please install ffmpeg: https://ffmpeg.org/download.html">>]
      [] OTHER -> [ok |-> TRUE]

\* lines 81-88: the version probe, run with check=True
FfmpegProbe(outcome) ==
    CASE outcome.kind = "launch" /\ outcome.exc # "FileNotFoundError" ->
           [ok |-> FALSE, exc |-> outcome.exc, msg |-> <<>>]
      [] outcome.kind = "launch" \/ outcome.returncode # 0 ->
           [ok |-> FALSE, exc |-> "RuntimeError",
            msg |-> <<"ffmpeg is required for video processing. ",
                      "Please install ffmpeg: https://ffmpeg.org/download.html">>]
      [] OTHER -> [ok |-> TRUE]

\* an extraction run that leaves its temporary file behind when ffmpeg fails
ExtractionRunLeaky(outcome, temp_audio, created) ==
    CASE outcome.kind = "launch" ->
           [raised |-> TRUE, exc |-> outcome.exc, msg |-> <<>>, files |-> created]
      [] outcome.kind = "exit" /\ outcome.returncode # 0 ->
           [raised |-> TRUE, exc |-> "RuntimeError",
            msg |-> <<"Failed to extract audio from video: ", outcome.stderr>>,
            files |-> created]
      [] OTHER -> [raised |-> FALSE, ret |-> temp_audio, files |-> created]

\* lines 94-112: the extraction run with check=True, given the temporary
\* file just created: what it returns or raises and the files left behind.
\* Only CalledProcessError is caught, so a run that cannot be launched
\* leaves the file.
ExtractionRun(outcome, temp_audio, created) ==
    CASE outcome.kind = "launch" ->
           [raised |-> TRUE, exc |-> outcome.exc, msg |-> <<>>, files |-> created]
      [] outcome.kind = "exit" /\ outcome.returncode # 0 ->
           [raised |-> TRUE, exc |-> "RuntimeError",
            msg |-> <<"Failed to extract audio from video: ", outcome.stderr>>,
            files |-> created \ {temp_audio}]
      [] OTHER -> [raised |-> FALSE, ret |-> temp_audio, files |-> created]

\* an output parser that makes a segment of whatever the script printed
parse_output_segments(output, audio_file) ==
    [audio_file |-> audio_file,
     speakers |-> IF output = "" THEN <<>> ELSE <<[speaker |-> output]>>,
     transcription |-> IF output = "" THEN <<>> ELSE <<[text |-> output]>>,
     metadata |-> [processing_time |-> None, whisper_model |-> None, num_speakers |-> 0,
                   audio_duration |-> None]]

\* _parse_output: lines 195-220
parse_output(output, audio_file) ==
    [audio_file |-> audio_file,
     speakers |-> <<>>,
     transcription |-> <<>>,
     metadata |-> [processing_time |-> None, whisper_model |-> None, num_speakers |-> 0,
                   audio_duration |-> None]]

\* a failed run downgraded to an empty result
DiarizationFailedEmpty(outcome, audio_file) ==
    [raised |-> FALSE, ret |-> parse_output("", audio_file)]

\* lines 184-187: except subprocess.CalledProcessError
DiarizationFailed(outcome, audio_file) ==
    [raised |-> TRUE, exc |-> "RuntimeError",
     msg |-> <<"Diarization failed: ", outcome.stderr>>]

\* lines 171-187: what the inner try of diarize returns or raises
RunDiarize(outcome, audio_file) ==
    CASE outcome.kind = "launch" -> [raised |-> TRUE, exc |-> outcome.exc, msg |-> <<>>]
      [] outcome.kind = "exit" /\ outcome.returncode # 0 ->
           DiarizationFailed(outcome, audio_file)
      [] OTHER -> [raised |-> FALSE, ret |-> parse_output(outcome.stdout, audio_file)]

\* a cleanup that runs on the successful path only
CleanupOnSuccess(temp, existing, raising) ==
    IF ~raising /\ temp # None /\ temp.s \in existing THEN existing \ {temp.s} ELSE existing

\* lines 189-193: the finally block of diarize; it runs whether or not an
\* exception is in flight
Cleanup(temp, existing, raising) ==
    IF temp # None /\ temp.s \in existing THEN existing \ {temp.s} ELSE existing

\* the outcomes of the three subprocess runs, and the arguments of diarize
LaunchErrors == {"FileNotFoundError", "PermissionError"}
ProbeOutcomes ==
    {Exited(0, "ffmpeg version 6.0", ""), Exited(1, "", "")}
    \cup {CannotLaunch(e) : e \in LaunchErrors}
ExtractOutcomes ==
    {Exited(0, "", ""), Exited(1, "", "Invalid data found")}
    \cup {CannotLaunch(e) : e \in LaunchErrors}
RunOutcomes ==
    {Exited(0, "", ""), Exited(0, "Speaker 0: hallo", "warning"),
     Exited(1, "", "CUDA out of memory"), Exited(2, "Speaker 0:", "")}
    \cup {CannotLaunch(e) : e \in LaunchErrors}

DiarizeArgs ==
    {[whisper_model |-> "medium.en", suppress_numerals |-> TRUE, device |-> "auto",
      language |-> None, batch_size |-> 0],
     [whisper_model |-> "large-v3", suppress_numerals |-> FALSE, device |-> "cuda",
      language |-> PyStr("nl"), batch_size |-> 16],
     [whisper_model |-> "medium.en", suppress_numerals |-> FALSE, device |-> "cpu",
      language |-> PyStr(""), batch_size |-> 8]}

\* how many leaked temporary files a new call tolerates
MaxLeaked == 1

(***************************************************************************)
(* utils/srt_to_text.py: parse_srt_file.  A line is the sequence of its    *)
(* characters; readlines() leaves the line terminator on each line.        *)
(***************************************************************************)
Whitespace == {" ", "\t", "\n"}
Digits == {"0", "1", "2", "3", "4", "5", "6", "7", "8", "9"}

RECURSIVE StrLStrip(_)
StrLStrip(line) ==
    IF line # <<>> /\ Head(line) \in Whitespace THEN StrLStrip(Tail(line)) ELSE line

RECURSIVE StrRStrip(_)
StrRStrip(line) ==
    IF line # <<>> /\ line[Len(line)] \in Whitespace
    THEN StrRStrip(SubSeq(line, 1, Len(line) - 1))
    ELSE line

\* str.strip(), str.isdigit(), and `'-->' in line`
StrStrip(line) == StrRStrip(StrLStrip(line))
isdigit(line) == line # <<>> /\ \A i \in 1..Len(line) : line[i] \in Digits
ContainsArrow(line) ==
    \E i \in 1..Len(line) :
        i + 2 <= Len(line) /\ line[i] = "-" /\ line[i + 1] = "-" /\ line[i + 2] = ">"

\* ' '.join(text_lines)
RECURSIVE SpaceJoin(_)
SpaceJoin(text_lines) ==
    IF text_lines = <<>> THEN <<>>
    ELSE IF Len(text_lines) = 1 THEN text_lines[1]
    ELSE text_lines[1] \o <<" ">> \o SpaceJoin(Tail(text_lines))

\* lines 36-56 (and 64-79): the loop over the lines read
RECURSIVE CollectText(_, _, _)
CollectText(lines, i, text_lines) ==
    IF i > Len(lines) THEN text_lines
    ELSE LET line == StrStrip(lines[i])
         IN IF isdigit(line) THEN CollectText(lines, i + 1, text_lines)
            ELSE IF ContainsArrow(line) THEN CollectText(lines, i + 1, text_lines)
            ELSE IF line = <<>> THEN CollectText(lines, i + 1, text_lines)
            ELSE CollectText(lines, i + 1, Append(text_lines, line))

\* open(srt_path, encoding=...) followed by readlines()
ReadLines(file, encoding) ==
    CASE file.kind = "unreadable" -> [ok |-> FALSE, exc |-> "PermissionError"]
      [] file.kind = "latin1" /\ encoding = "utf-8" ->
           [ok |-> FALSE, exc |-> "UnicodeDecodeError"]
      [] OTHER -> [ok |-> TRUE, lines |-> file.lines]

\* parse_srt_file: lines 13-89.  Latin-1 decodes every byte, so the inner
\* `except Exception` is entered only when the second open itself fails.
parse_srt_file(file) ==
    IF file.kind = "missing" THEN [ok |-> FALSE, exc |-> "FileNotFoundError"]
    ELSE LET utf8 == ReadLines(file, "utf-8")
             latin1 == ReadLines(file, "latin-1")
         IN IF utf8.ok THEN [ok |-> TRUE, ret |-> SpaceJoin(CollectText(utf8.lines, 1, <<>>))]
            ELSE IF utf8.exc # "UnicodeDecodeError" THEN utf8
            ELSE IF latin1.ok
                 THEN [ok |-> TRUE, ret |-> SpaceJoin(CollectText(latin1.lines, 1, <<>>))]
                 ELSE [ok |-> FALSE, exc |-> "RuntimeError"]

\* the subtitle files: blocks of an index line, a time-range line, one or two
\* text lines and a blank line
MaxBlocks == 2

TimeRange == <<"0", ":", "1", " ", "-", "-", ">", " ", "0", ":", "2">>
TextLinePool ==
    {<<"H", "i">>, <<" ", "o", "k", " ">>, <<"4", "2">>, <<"a", " ", "-", "-", ">", " ", "b">>}
TextLineSeqs == UNION {[1..m -> TextLinePool] : m \in 1..2}
BlockSeqs == UNION {[1..n -> TextLineSeqs] : n \in 1..MaxBlocks}

IndexLine(k) == <<<<"0", "1", "2", "3", "4", "5", "6", "7", "8", "9">>[k + 1]>>

RECURSIVE SrtLines(_, _)
SrtLines(blocks, k) ==
    IF k > Len(blocks) THEN <<>>
    ELSE <<IndexLine(k) \o <<"\n">>, TimeRange \o <<"\n">>>>
         \o [j \in 1..Len(blocks[k]) |-> blocks[k][j] \o <<"\n">>]
         \o << <<"\n">> >>
         \o SrtLines(blocks, k + 1)

SrtFiles ==
    {[kind |-> kind, blocks |-> blocks, lines |-> SrtLines(blocks, 1)] :
        kind \in {"utf8", "latin1"}, blocks \in BlockSeqs}
    \cup {[kind |-> "missing"], [kind |-> "unreadable"]}

(***************************************************************************)
(* cli.py: the command line.  A process is what the shell sees of one run: *)
(* its exit code, the lines on standard output and the exceptions whose    *)
(* traceback the interpreter or main wrote to standard error.              *)
(***************************************************************************)
\* the attributes of class Config
ConfigAttrs ==
    {"DEFAULT_MODEL", "DEFAULT_TEMPERATURE", "DEFAULT_LANGUAGE", "ENV_API_KEY", "ENV_MODEL",
     "ENV_TEMPERATURE", "ENV_LANGUAGE", "get_default_config", "get_config_from_env",
     "validate_config"}

\* the attributes of Config that create_parser reads, in evaluation order
ParserLookups ==
    <<"DEFAULT_MODEL", "get_supported_models", "DEFAULT_MODEL", "DEFAULT_LANGUAGE",
      "get_supported_languages", "DEFAULT_LANGUAGE", "DEFAULT_TEMPERATURE",
      "DEFAULT_TEMPERATURE">>

\* getattr(Config, name) for each name in turn: the first miss raises
ConfigLookups(names) ==
    LET missing == {i \in 1..Len(names) : names[i] \notin ConfigAttrs}
    IN IF missing = {} THEN [ok |-> TRUE]
       ELSE [ok |-> FALSE, exc |-> "AttributeError",
             attr |-> names[CHOOSE i \in missing : \A j \in missing : i <= j]]

create_parser == ConfigLookups(ParserLookups)

Line(kind, about) == [kind |-> kind, about |-> about]

Process(exit_code, stdout, traceback) ==
    [exit_code |-> exit_code, stdout |-> stdout, traceback |-> traceback]

\* an exception no handler caught: the interpreter writes its traceback, status 1
Uncaught(stdout, exc) == Process(1, stdout, <<exc>>)

HasFlag(argv, flags) == \E i \in 1..Len(argv) : argv[i] \in flags

\* the value that follows an option, or None
OptionValue(argv, flags) ==
    IF \E i \in 1..(Len(argv) - 1) : argv[i] \in flags
    THEN PyStr(argv[1 + CHOOSE i \in 1..(Len(argv) - 1) : argv[i] \in flags])
    ELSE None

\* parser.parse_args() on a well-formed command line
parse_args(argv) ==
    IF argv = <<>> THEN [command |-> None]
    ELSE IF argv[1] \in {"list-models", "list-languages"} THEN [command |-> PyStr(argv[1])]
    ELSE [command |-> PyStr(argv[1]), operand |-> argv[2], model |-> "gpt-4",
          language |-> "Dutch", temperature |-> 10,
          output |-> OptionValue(argv, {"--output", "-o"}),
          verbose |-> HasFlag(argv, {"--verbose", "-v"})]

\* print_results(results, args)
print_results(source, args) ==
    IF args.verbose THEN <<Line("json", source)>>
    ELSE <<Line("Analysis completed successfully!", source)>>

\* the `except Exception` handler of main, entered with stdout written so far
Handler(stdout, args, e) ==
    IF "verbose" \notin DOMAIN args
    THEN Uncaught(stdout \o <<Line("Error", e)>>, "AttributeError")
    ELSE Process(1, stdout \o <<Line("Error", e)>>, IF args.verbose THEN <<e>> ELSE <<>>)

\* the body of main's try for analyze-file and analyze-text
AnalyzeCommand(args, world) ==
    LET file == args.command = PyStr("analyze-file")
        source == IF file THEN PathStr(args.operand) ELSE "direct_text_input"
        printed == print_results(source, args)
    IN IF file /\ Files[args.operand].kind = "missing"
       THEN Process(1, <<Line("Error", "File not found")>>, <<>>)
       ELSE IF world.interrupted
       THEN Process(1, <<Line("", ""), Line("Operation cancelled by user.", "")>>, <<>>)
       ELSE IF file /\ Files[args.operand].kind = "undecodable"
       THEN Handler(<<>>, args, "UnicodeDecodeError")
       ELSE IF ~Truthy(args.output) THEN Process(0, printed, <<>>)
       ELSE IF ~world.writable THEN Handler(printed, args, "PermissionError")
       ELSE Process(0, printed \o <<Line("Results saved to", args.output.s)>>, <<>>)

\* the body of main's try for list-models and list-languages
ListCommand(args) ==
    LET models == args.command = PyStr("list-models")
        heading == <<Line(IF models THEN "Supported LLM models:"
                          ELSE "Supported languages:", "")>>
        listed == ConfigLookups(<<IF models THEN "get_supported_models"
                                  ELSE "get_supported_languages">>)
    IN IF listed.ok THEN Process(0, heading, <<>>)
       ELSE Handler(heading, args, listed.exc)

\* main(): the parser is built and the arguments parsed outside the try
main(argv, world) ==
    LET parser == create_parser
        args == parse_args(argv)
    IN IF ~parser.ok THEN Uncaught(<<>>, parser.exc)
       ELSE IF args.command = None THEN Process(0, <<Line("usage", "")>>, <<>>)
       ELSE IF args.command.s \in {"analyze-file", "analyze-text"}
       THEN AnalyzeCommand(args, world)
       ELSE ListCommand(args)

Options ==
    {<<>>, <<"--verbose">>, <<"-v">>, <<"--output", "out.json">>,
     <<"-v", "-o", "out.json">>}

\* the command lines: every subcommand, with and without its options
CommandLines ==
    {<<>>, <<"list-models">>, <<"list-languages">>}
    \cup {<<"analyze-file", p>> \o o : p \in {"speech.txt", "missing.txt", "latin1.txt"},
                                       o \in Options}
    \cup {<<"analyze-text", "T1">> \o o : o \in Options}

\* what the run meets: Ctrl-C during the analysis, an output file it may write
Worlds == [interrupted : BOOLEAN, writable : BOOLEAN]

(***************************************************************************)
(* State.                                                                  *)
(*   self        the analyzer's attributes set by __init__                 *)
(*   pc          the position of the current call                          *)
(*   call        the method the caller invoked and its source label        *)
(*   text        the text under analysis (text / text_content)             *)
(*   requests    the litellm.completion calls issued by the current call   *)
(*   outcomes    the outcome the gateway gave each facet's request         *)
(*   question_analysis, bias_analysis, sentiment_analysis, summary         *)
(*               the locals of analyze_text / analyze_text_file            *)
(*   result      the AnalysisResult returned, or None                      *)
(*   raised      the exception that left the call, or ""                   *)
(*   log         the logger calls of the current call                      *)
(*   init_args   the keyword arguments self was constructed with           *)
(*   litellm     the settings of the litellm module, shared by the process *)
(*   credentials the module settings each request of the call was sent     *)
(*               under: completion() is passed no key and no endpoint      *)
(*               (lines 120-124), so the gateway reads them off the module *)
(* The diarizer (whisper_diarization_sdk/core.py):                         *)
(*   repo        the files present in each directory the constructor may   *)
(*               look at                                                   *)
(*   diarizer    the WhisperDiarizer's attributes, or None                 *)
(*   dpc         the position of the constructor / of the diarize call     *)
(*   dcall       the arguments of the diarize call                         *)
(*   temp_audio_file  the local of diarize                                 *)
(*   tmp_files   the temporary files that exist                            *)
(*   spawned     the subprocess.run calls of the current call, each with   *)
(*               the outcome the operating system gave it                  *)
(*   dresult     the DiarizationResult returned, or None                   *)
(*   draised     the exception that left the constructor or diarize        *)
(* The subtitle converter (utils/srt_to_text.py):                          *)
(*   srt_file    the file parse_srt_file is pointed at                     *)
(*   srt_pc      whether parse_srt_file has run                            *)
(*   srt_ret     what parse_srt_file returned or raised                    *)
(* The command line (cli.py):                                              *)
(*   sys_argv    the arguments of the process                              *)
(*   world       what the run meets outside the program                    *)
(*   cli_pc      "started" or "exited"                                     *)
(*   process     what the shell saw of the run, or None                    *)
(***************************************************************************)
VARIABLES self, pc, call, text, requests, outcomes, question_analysis,
          bias_analysis, sentiment_analysis, summary, result, raised, log,
          init_args, litellm, credentials,
          repo, diarizer, dpc, dcall, temp_audio_file, tmp_files, spawned, dresult,
          draised, srt_file, srt_pc, srt_ret, sys_argv, world, cli_pc, process

diarizerVars ==
    <<repo, diarizer, dpc, dcall, temp_audio_file, tmp_files, spawned, dresult, draised>>
srtVars == <<srt_file, srt_pc, srt_ret>>
cliVars == <<sys_argv, world, cli_pc, process>>

\* what no method of the analyzer assigns
outside == <<init_args, litellm, diarizerVars, srtVars, cliVars>>

vars == <<self, pc, call, text, requests, outcomes, question_analysis,
          bias_analysis, sentiment_analysis, summary, result, raised, log,
          init_args, litellm, credentials, diarizerVars, srtVars, cliVars>>

Pending == [kind |-> "pending"]
NoCall == [method |-> "none", source |-> ""]

\* no call in progress: every per-call variable is at its initial value
Idle ==
    /\ pc = "idle"
    /\ call = NoCall
    /\ text = None
    /\ requests = <<>>
    /\ credentials = <<>>
    /\ outcomes = [f \in RecordFacets \cup {"summary"} |-> Pending]
    /\ question_analysis = <<>>
    /\ bias_analysis = <<>>
    /\ sentiment_analysis = <<>>
    /\ summary = <<>>
    /\ result = None
    /\ raised = ""
    /\ log = <<>>

\* the analyzer has been constructed in a process that had only imported litellm
Constructed ==
    /\ init_args \in InitArgs
    /\ self = PoliticalStatementAnalyzer(init_args, ImportedLitellm).self
    /\ litellm = PoliticalStatementAnalyzer(init_args, ImportedLitellm).litellm

\* no diarizer has been constructed
NoDiarizer ==
    /\ repo = [d \in Directories |-> {}]
    /\ diarizer = None
    /\ dpc = "new"
    /\ dcall = None
    /\ temp_audio_file = None
    /\ tmp_files = {}
    /\ spawned = <<>>
    /\ dresult = None
    /\ draised = None

\* no subtitle file has been converted
NoSrt ==
    /\ srt_file = [kind |-> "missing"]
    /\ srt_pc = "idle"
    /\ srt_ret = None

NoCli ==
    /\ sys_argv = <<>>
    /\ world = [interrupted |-> FALSE, writable |-> TRUE]
    /\ cli_pc = "idle"
    /\ process = None

Init == Constructed /\ Idle /\ NoDiarizer /\ NoSrt /\ NoCli

\* the gateway requests a facet issued and the outcome its request was given
Issue(facet, outcome, r) ==
    /\ requests' = requests \o r.sent
    /\ credentials' = credentials \o [i \in 1..Len(r.sent) |-> litellm]
    /\ outcomes' = IF r.sent = <<>> THEN outcomes
                   ELSE [outcomes EXCEPT ![facet] = outcome]

\* an exception that leaves the call whatever the method
EscapedPropagate(exc, logged) ==
    /\ raised' = exc
    /\ pc' = "raised"
    /\ log' = logged
    /\ result' = result

\* an exception leaves a facet method: analyze_text catches it (lines 324-342),
\* analyze_text_file and a direct caller of the facet receive it
Escaped(exc, logged) ==
    IF call.method = "analyze_text"
    THEN /\ result' = ErrorResult(self, exc)
         /\ log' = Append(logged, LogRec("ERROR", "Error in analyze_text", "", exc))
         /\ pc' = "done"
         /\ raised' = raised
    ELSE /\ raised' = exc
         /\ pc' = "raised"
         /\ log' = logged
         /\ result' = result

\* analyze_text(text): line 292
CallAnalyzeText ==
    /\ pc = "idle"
    /\ \E t \in TextInputs :
         /\ text' = t
         /\ call' = [method |-> "analyze_text", source |-> "direct_text_input"]
    /\ log' = <<LogRec("INFO", "Analyzing provided text content", "", "")>>
    /\ pc' = "questions"
    /\ UNCHANGED <<self, outside, requests, credentials, outcomes, question_analysis, bias_analysis,
                   sentiment_analysis, summary, result, raised>>

\* a file method that reads a missing file as an empty text
CallAnalyzeTextFileUnchecked ==
    /\ pc = "idle"
    /\ \E file_path \in DOMAIN Files :
         /\ call' = [method |-> "analyze_text_file", source |-> PathStr(file_path)]
         /\ text' = IF Files[file_path].kind = "utf8" THEN PyStr(Files[file_path].content)
                    ELSE PyStr("")
         /\ log' = <<LogRec("INFO", "Analyzing text file", "", PathStr(file_path))>>
         /\ pc' = "questions"
         /\ raised' = raised
    /\ UNCHANGED <<self, outside, requests, credentials, outcomes, question_analysis,
                   bias_analysis, sentiment_analysis, summary, result>>

\* a file method that analyses the path instead of the file's content
CallAnalyzeTextFilePathAsText ==
    /\ pc = "idle"
    /\ \E file_path \in DOMAIN Files :
         /\ call' = [method |-> "analyze_text_file", source |-> PathStr(file_path)]
         /\ CASE Files[file_path].kind = "missing" ->
                   /\ raised' = "FileNotFoundError"
                   /\ pc' = "raised"
                   /\ UNCHANGED <<text, log>>
              [] Files[file_path].kind = "undecodable" ->
                   /\ raised' = "UnicodeDecodeError"
                   /\ pc' = "raised"
                   /\ UNCHANGED <<text, log>>
              [] Files[file_path].kind = "utf8" ->
                   /\ text' = PyStr(PathStr(file_path))
                   /\ log' = <<LogRec("INFO", "Analyzing text file", "", PathStr(file_path))>>
                   /\ pc' = "questions"
                   /\ raised' = raised
    /\ UNCHANGED <<self, outside, requests, credentials, outcomes, question_analysis,
                   bias_analysis, sentiment_analysis, summary, result>>

\* analyze_text_file(file_path): lines 74-83
CallAnalyzeTextFile ==
    /\ pc = "idle"
    /\ \E file_path \in DOMAIN Files :
         /\ call' = [method |-> "analyze_text_file", source |-> PathStr(file_path)]
         /\ CASE Files[file_path].kind = "missing" ->
                   /\ raised' = "FileNotFoundError"
                   /\ pc' = "raised"
                   /\ UNCHANGED <<text, log>>
              [] Files[file_path].kind = "undecodable" ->
                   /\ raised' = "UnicodeDecodeError"
                   /\ pc' = "raised"
                   /\ UNCHANGED <<text, log>>
              [] Files[file_path].kind = "utf8" ->
                   /\ text' = PyStr(Files[file_path].content)
                   /\ log' = <<LogRec("INFO", "Analyzing text file", "", PathStr(file_path))>>
                   /\ pc' = "questions"
                   /\ raised' = raised
    /\ UNCHANGED <<self, outside, requests, credentials, outcomes, question_analysis, bias_analysis,
                   sentiment_analysis, summary, result>>

\* question_analysis = self._analyze_questions(text)
QuestionsStep(Outcomes, next) ==
    /\ \E o \in Outcomes :
         LET r == analyze_questions(self, text, o)
         IN /\ Issue("questions", o, r)
            /\ IF r.raised
               THEN /\ Escaped(r.exc, log \o r.log)
                    /\ question_analysis' = question_analysis
               ELSE /\ question_analysis' = r.ret
                    /\ log' = log \o r.log
                    /\ pc' = next
                    /\ UNCHANGED <<result, raised>>
    /\ UNCHANGED <<self, outside, call, text, bias_analysis, sentiment_analysis, summary>>

\* bias_analysis = self._analyze_bias(text)
BiasStep(Outcomes, next) ==
    /\ \E o \in Outcomes :
         LET r == analyze_bias(self, text, o)
         IN /\ Issue("bias", o, r)
            /\ IF r.raised
               THEN /\ Escaped(r.exc, log \o r.log)
                    /\ bias_analysis' = bias_analysis
               ELSE /\ bias_analysis' = r.ret
                    /\ log' = log \o r.log
                    /\ pc' = next
                    /\ UNCHANGED <<result, raised>>
    /\ UNCHANGED <<self, outside, call, text, question_analysis, sentiment_analysis, summary>>

\* sentiment_analysis = self._analyze_sentiment(text)
SentimentStep(Outcomes, next) ==
    /\ \E o \in Outcomes :
         LET r == analyze_sentiment(self, text, o)
         IN /\ Issue("sentiment", o, r)
            /\ IF r.raised
               THEN /\ Escaped(r.exc, log \o r.log)
                    /\ sentiment_analysis' = sentiment_analysis
               ELSE /\ sentiment_analysis' = r.ret
                    /\ log' = log \o r.log
                    /\ pc' = next
                    /\ UNCHANGED <<result, raised>>
    /\ UNCHANGED <<self, outside, call, text, question_analysis, bias_analysis, summary>>

AnalyzeQuestions == pc = "questions" /\ QuestionsStep(BatchOutcomes("questions"), "bias")
AnalyzeBias == pc = "bias" /\ BiasStep(BatchOutcomes("bias"), "sentiment")
AnalyzeSentiment == pc = "sentiment" /\ SentimentStep(BatchOutcomes("sentiment"), "summary")

\* summary = self._create_summary({...})
CreateSummary ==
    /\ pc = "summary"
    /\ \E o \in SummaryOutcomes :
         LET r == create_summary(self,
                    SummaryInput(question_analysis, bias_analysis, sentiment_analysis), o)
         IN /\ Issue("summary", o, r)
            /\ summary' = r.ret
            /\ log' = log \o r.log
    /\ pc' = "return"
    /\ UNCHANGED <<self, outside, call, text, question_analysis, bias_analysis,
                   sentiment_analysis, result, raised>>

\* return AnalysisResult(...): lines 99-113 and 309-323
ReturnResult ==
    /\ pc = "return"
    /\ result' = AnalysisResult(call.source, self, question_analysis, bias_analysis,
                                sentiment_analysis, summary)
    /\ pc' = "done"
    /\ UNCHANGED <<self, outside, call, text, requests, credentials, outcomes, question_analysis,
                   bias_analysis, sentiment_analysis, summary, raised, log>>

\* the caller has the result or the exception; the analyzer is ready again
Returned ==
    /\ pc \in {"done", "raised"}
    /\ pc' = "idle"
    /\ call' = NoCall
    /\ text' = None
    /\ requests' = <<>>
    /\ credentials' = <<>>
    /\ outcomes' = [f \in RecordFacets \cup {"summary"} |-> Pending]
    /\ question_analysis' = <<>>
    /\ bias_analysis' = <<>>
    /\ sentiment_analysis' = <<>>
    /\ summary' = <<>>
    /\ result' = None
    /\ raised' = ""
    /\ log' = <<>>
    /\ UNCHANGED <<self, outside>>

Next ==
    \/ CallAnalyzeText
    \/ CallAnalyzeTextFile
    \/ AnalyzeQuestions
    \/ AnalyzeBias
    \/ AnalyzeSentiment
    \/ CreateSummary
    \/ ReturnResult
    \/ Returned

Spec == Init /\ [][Next]_vars

(***************************************************************************)
(* The facet methods driven alone, as a unit test calls them.              *)
(***************************************************************************)
CallFacet ==
    /\ pc = "idle"
    /\ \E f \in RecordFacets, t \in TextInputs :
         /\ call' = [method |-> f, source |-> ""]
         /\ text' = t
         /\ pc' = f
    /\ UNCHANGED <<self, outside, requests, credentials, outcomes, question_analysis, bias_analysis,
                   sentiment_analysis, summary, result, raised, log>>

DecodeQuestions ==
    pc = "questions" /\ QuestionsStep(DecoderOutcomes("questions"), "done")
DecodeBias == pc = "bias" /\ BiasStep(DecoderOutcomes("bias"), "done")
DecodeSentiment ==
    pc = "sentiment" /\ SentimentStep(DecoderOutcomes("sentiment"), "done")

DecoderNext ==
    \/ CallFacet
    \/ DecodeQuestions
    \/ DecodeBias
    \/ DecodeSentiment
    \/ Returned

DecoderSpec == Init /\ [][DecoderNext]_vars

(***************************************************************************)
(* Several analyzers in one process.  The analyzer under study makes its   *)
(* calls as in Spec, with two replies per facet; between its calls another *)
(* part of the program may construct an analyzer of its own.               *)
(***************************************************************************)
InstanceOutcomes(facet) ==
    {Raise("APIConnectionError"), Text(<<Document(facet, <<GoodEntry(facet)>>)>>)}

\* PoliticalStatementAnalyzer(**kwargs), the new instance kept elsewhere
ConstructAnother ==
    /\ pc = "idle"
    /\ \E kwargs \in OtherArgs :
         litellm' = PoliticalStatementAnalyzer(kwargs, litellm).litellm
    /\ UNCHANGED <<self, pc, call, text, requests, outcomes, question_analysis,
                   bias_analysis, sentiment_analysis, summary, result, raised, log,
                   init_args, credentials, diarizerVars, srtVars, cliVars>>

SharedQuestions == pc = "questions" /\ QuestionsStep(InstanceOutcomes("questions"), "bias")
SharedBias == pc = "bias" /\ BiasStep(InstanceOutcomes("bias"), "sentiment")
SharedSentiment == pc = "sentiment" /\ SentimentStep(InstanceOutcomes("sentiment"), "summary")

InstancesNext ==
    \/ ConstructAnother
    \/ CallAnalyzeText
    \/ CallAnalyzeTextFile
    \/ SharedQuestions
    \/ SharedBias
    \/ SharedSentiment
    \/ CreateSummary
    \/ ReturnResult
    \/ Returned

InstancesSpec == Init /\ [][InstancesNext]_vars

(***************************************************************************)
(* The diarizer: its constructor and diarize, one subprocess run per step. *)
(***************************************************************************)
analyzerVars ==
    <<self, pc, call, text, requests, outcomes, question_analysis, bias_analysis,
      sentiment_analysis, summary, result, raised, log, init_args, litellm, credentials>>

\* WhisperDiarizer() or WhisperDiarizer(path): lines 24-52
ConstructDiarizer ==
    /\ dpc = "new"
    /\ \E whisper_diarization_path \in {None, PyStr(ExplicitPath)} :
         LET r == WhisperDiarizer(whisper_diarization_path, repo)
         IN /\ dcall' = [method |-> "__init__",
                         whisper_diarization_path |-> whisper_diarization_path]
            /\ IF r.ok
               THEN /\ diarizer' = r.self
                    /\ dpc' = "constructed"
                    /\ draised' = draised
               ELSE /\ diarizer' = diarizer
                    /\ dpc' = "failed"
                    /\ draised' = [exc |-> r.exc, msg |-> r.msg]
    /\ UNCHANGED <<repo, temp_audio_file, tmp_files, spawned, dresult>>
    /\ UNCHANGED <<analyzerVars, srtVars, cliVars>>

\* diarize(audio_file, ...): lines 139-153, up to the first subprocess
CallDiarize ==
    /\ dpc \in {"constructed", "ready"}
    /\ Cardinality(tmp_files) <= MaxLeaked
    /\ \E audio_file \in DOMAIN Media, args \in DiarizeArgs :
         /\ dcall' = [method |-> "diarize", audio_file |-> audio_file] @@ args
         /\ IF ~Media[audio_file].exists
            THEN /\ draised' = [exc |-> "FileNotFoundError",
                                msg |-> <<"File not found: ", audio_file>>]
                 /\ dpc' = "raised"
            ELSE /\ draised' = None
                 /\ dpc' = IF is_video_file(audio_file) THEN "probe" ELSE "run"
    /\ temp_audio_file' = None
    /\ spawned' = <<>>
    /\ dresult' = None
    /\ UNCHANGED <<repo, diarizer, tmp_files>>
    /\ UNCHANGED <<analyzerVars, srtVars, cliVars>>

\* _extract_audio_from_video, lines 81-88: is ffmpeg there?
ProbeFfmpeg ==
    /\ dpc = "probe"
    /\ \E outcome \in ProbeOutcomes :
         LET r == FfmpegProbe(outcome)
         IN /\ spawned' = Append(spawned, [cmd |-> FfmpegVersionCmd, cwd |-> None, outcome |-> outcome])
            /\ IF r.ok
               THEN /\ dpc' = "extract"
                    /\ UNCHANGED <<draised, tmp_files>>
               ELSE /\ draised' = [exc |-> r.exc, msg |-> r.msg]
                    /\ tmp_files' = Cleanup(temp_audio_file, tmp_files, TRUE)
                    /\ dpc' = "raised"
    /\ UNCHANGED <<repo, diarizer, dcall, temp_audio_file, dresult>>
    /\ UNCHANGED <<analyzerVars, srtVars, cliVars>>

\* _extract_audio_from_video, lines 90-112: the temporary file and the
\* extraction run; then lines 148-151 of diarize
ExtractAudio ==
    /\ dpc = "extract"
    /\ \E outcome \in ExtractOutcomes :
         LET temp_audio == FreshTemp(tmp_files)
             created == tmp_files \cup {temp_audio}
             r == ExtractionRun(outcome, temp_audio, created)
         IN /\ spawned' = Append(spawned,
                                 [cmd |-> FfmpegExtractCmd(dcall.audio_file, temp_audio),
                                  cwd |-> None, outcome |-> outcome])
            /\ IF r.raised
               THEN /\ draised' = [exc |-> r.exc, msg |-> r.msg]
                    /\ tmp_files' = Cleanup(temp_audio_file, r.files, TRUE)
                    /\ dpc' = "raised"
                    /\ UNCHANGED temp_audio_file
               ELSE /\ temp_audio_file' = PyStr(r.ret)
                    /\ tmp_files' = r.files
                    /\ dpc' = "run"
                    /\ UNCHANGED draised
    /\ UNCHANGED <<repo, diarizer, dcall, dresult>>
    /\ UNCHANGED <<analyzerVars, srtVars, cliVars>>

\* lines 147-193: the diarization run, its result or error, and the finally
RunDiarization ==
    /\ dpc = "run"
    /\ \E outcome \in RunOutcomes :
         LET processing_file == IF temp_audio_file # None THEN temp_audio_file.s
                                ELSE dcall.audio_file
             r == RunDiarize(outcome, dcall.audio_file)
         IN /\ spawned' = Append(spawned,
                                 [cmd |-> DiarizeCmd(diarizer, processing_file, dcall),
                                  cwd |-> PyStr(diarizer.whisper_diarization_path),
                                  outcome |-> outcome])
            /\ tmp_files' = Cleanup(temp_audio_file, tmp_files, r.raised)
            /\ IF r.raised
               THEN /\ draised' = [exc |-> r.exc, msg |-> r.msg]
                    /\ dpc' = "raised"
                    /\ UNCHANGED dresult
               ELSE /\ dresult' = r.ret
                    /\ dpc' = "returned"
                    /\ UNCHANGED draised
    /\ UNCHANGED <<repo, diarizer, dcall, temp_audio_file>>
    /\ UNCHANGED <<analyzerVars, srtVars, cliVars>>

\* the caller has the result or the exception; the diarizer is ready again
DiarizeReturned ==
    /\ dpc \in {"returned", "raised"}
    /\ dpc' = "ready"
    /\ dcall' = None
    /\ temp_audio_file' = None
    /\ spawned' = <<>>
    /\ dresult' = None
    /\ draised' = None
    /\ UNCHANGED <<repo, diarizer, tmp_files>>
    /\ UNCHANGED <<analyzerVars, srtVars, cliVars>>

DiarizerInit ==
    /\ Constructed /\ init_args = <<>>
    /\ Idle
    /\ NoSrt
    /\ NoCli
    /\ repo \in Layouts
    /\ diarizer = None
    /\ dpc = "new"
    /\ dcall = None
    /\ temp_audio_file = None
    /\ tmp_files = {}
    /\ spawned = <<>>
    /\ dresult = None
    /\ draised = None

DiarizerNext ==
    \/ ConstructDiarizer
    \/ CallDiarize
    \/ ProbeFfmpeg
    \/ ExtractAudio
    \/ RunDiarization
    \/ DiarizeReturned

DiarizerSpec == DiarizerInit /\ [][DiarizerNext]_vars

(***************************************************************************)
(* The subtitle converter: parse_srt_file applied to one file.             *)
(***************************************************************************)
ParseSrtFile ==
    /\ srt_pc = "idle"
    /\ srt_ret' = parse_srt_file(srt_file)
    /\ srt_pc' = "done"
    /\ UNCHANGED srt_file
    /\ UNCHANGED <<analyzerVars, diarizerVars, cliVars>>

SrtInit ==
    /\ Constructed /\ init_args = <<>>
    /\ Idle
    /\ NoDiarizer
    /\ NoCli
    /\ srt_file \in SrtFiles
    /\ srt_pc = "idle"
    /\ srt_ret = None

SrtNext == ParseSrtFile

SrtSpec == SrtInit /\ [][SrtNext]_vars

(***************************************************************************)
(* The command line: one run of main on one command line.                  *)
(***************************************************************************)
\* main(): lines 174-220
RunMain ==
    /\ cli_pc = "started"
    /\ process' = main(sys_argv, world)
    /\ cli_pc' = "exited"
    /\ UNCHANGED <<sys_argv, world>>
    /\ UNCHANGED <<analyzerVars, diarizerVars, srtVars>>

CliInit ==
    /\ Constructed /\ init_args = <<>>
    /\ Idle
    /\ NoDiarizer
    /\ NoSrt
    /\ sys_argv \in CommandLines
    /\ world \in Worlds
    /\ cli_pc = "started"
    /\ process = None

CliNext == RunMain

CliSpec == CliInit /\ [][CliNext]_vars

(***************************************************************************)
(* Vocabulary of the properties.  The shape of a reply is read off the     *)
(* reply itself, not through strip and json_loads.                         *)
(***************************************************************************)
FacetRecords(f) ==
    CASE f = "questions" -> question_analysis
      [] f = "bias" -> bias_analysis
      [] f = "sentiment" -> sentiment_analysis

ResultField(f) ==
    CASE f = "questions" -> result.question_analysis
      [] f = "bias" -> result.biased_adjectives
      [] f = "sentiment" -> result.entity_sentiments

\* empty or nothing but whitespace
Blank(content) == \A i \in 1..Len(content) : content[i] = WS

\* exactly one complete JSON document, with at most whitespace around it
SingleDocument(content) ==
    \E i \in 1..Len(content) :
        /\ content[i].k = "json"
        /\ \A j \in (1..Len(content)) \ {i} : content[j] = WS

DocumentOf(content) == content[CHOOSE i \in 1..Len(content) : content[i].k = "json"].j

\* the outcome is a reply holding one JSON object
ReplyObject(o) ==
    /\ o.kind = "text"
    /\ SingleDocument(o.content)
    /\ DocumentOf(o.content).t = "obj"

\* the outcome is a reply whose object holds an array under the facet's key
HasEntries(f, o) ==
    /\ ReplyObject(o)
    /\ FacetKey(f) \in DOMAIN DocumentOf(o.content).o
    /\ DocumentOf(o.content).o[FacetKey(f)].t = "arr"

EntriesOf(f, o) == DocumentOf(o.content).o[FacetKey(f)].a

\* the records the facet's loop builds from a sequence of entries
RecordsOf(f, entries) == DecodeLoop(f, entries, 1, [ret |-> <<>>, log |-> <<>>]).ret

TagKey(f) == IF f = "questions" THEN "type" ELSE "sentiment"
Tags(f) == IF f = "questions" THEN QuestionTags ELSE SentimentTags

\* an entry that carries a tag which is none of the enumeration's four
BadTag(f, e) ==
    /\ e.t = "obj"
    /\ TagKey(f) \in DOMAIN e.o
    /\ ~(e.o[TagKey(f)].t = "str" /\ e.o[TagKey(f)].s \in Tags(f))

\* the facet's request failed: the gateway raised, the envelope was malformed,
\* or the reply is neither blank nor one JSON document
Failed(f) ==
    \/ outcomes[f].kind \in {"raise", "nochoices", "none"}
    \/ /\ outcomes[f].kind = "text"
       /\ ~Blank(outcomes[f].content)
       /\ ~SingleDocument(outcomes[f].content)

Template(request) == request.messages[1].content.template

Later(f) ==
    {FacetOrder[j] : j \in {k \in 1..Len(FacetOrder) :
                              \E i \in 1..(k - 1) : FacetOrder[i] = f}}

\* the number of facets a call at this position has completed
Completed(p) ==
    CASE p = "questions" -> 0
      [] p = "bias" -> 1
      [] p = "sentiment" -> 2
      [] p = "summary" -> 3
      [] p \in {"return", "done"} -> 4

(***************************************************************************)
(* C1.  In the question and the sentiment facet an entry whose tag is not  *)
(* one of the four tags of the enumeration removes only itself: when the   *)
(* reply's array is xs ++ [b] ++ ys with b such an entry, the facet        *)
(* returns the records of xs followed by the records of ys.                *)
(***************************************************************************)
C1_BadTagRemovesOnlyItself ==
    \A f \in {"questions", "sentiment"} :
        HasEntries(f, outcomes[f]) =>
            LET a == EntriesOf(f, outcomes[f])
            IN \A i \in 1..Len(a) :
                   BadTag(f, a[i]) =>
                       FacetRecords(f) =
                           RecordsOf(f, SubSeq(a, 1, i - 1))
                             \o RecordsOf(f, SubSeq(a, i + 1, Len(a)))

\* a bad-tag entry between two entries that decode, and both records returned
C1_Witness ==
    /\ pc = "done"
    /\ \E f \in {"questions", "sentiment"} :
           /\ HasEntries(f, outcomes[f])
           /\ LET a == EntriesOf(f, outcomes[f])
              IN /\ Len(a) = 3
                 /\ BadTag(f, a[2])
                 /\ Entry(f, a[1]).ok
                 /\ Entry(f, a[3]).ok
                 /\ FacetRecords(f) = <<Entry(f, a[1]).rec, Entry(f, a[3]).rec>>

(***************************************************************************)
(* C2.  analyze_text never raises to its caller: a call that has ended has *)
(* returned an AnalysisResult, and when an error escaped the facet methods *)
(* (the call ended before its four requests were issued) the result has    *)
(* counts 0, empty question, bias and sentiment lists, a summary holding   *)
(* the error text and an `error` key in its metadata.                      *)
(***************************************************************************)
C2_AnalyzeTextNeverRaises ==
    call.method = "analyze_text" =>
        /\ raised = ""
        /\ pc # "raised"
        /\ pc = "done" => result # None
        /\ (pc = "done" /\ Len(requests) < Len(FacetOrder)) =>
               /\ result.total_questions = 0
               /\ result.critical_questions = 0
               /\ result.confirming_questions = 0
               /\ result.biased_adjectives = <<>>
               /\ result.entity_sentiments = <<>>
               /\ result.question_analysis = <<>>
               /\ "error" \in DOMAIN result.metadata
               /\ \E i \in 1..Len(log) :
                      /\ log[i].msg = "Error in analyze_text"
                      /\ result.metadata.error = log[i].detail
               /\ \E k \in 1..Len(result.summary) :
                      result.summary[k] = Prose(result.metadata.error)

\* an analyze_text call whose text could not be rendered has returned a result
C2_Witness ==
    /\ pc = "done"
    /\ call.method = "analyze_text"
    /\ text = Unformattable
    /\ result # None
    /\ "error" \in DOMAIN result.metadata

(***************************************************************************)
(* C3.  Every AnalysisResult returned by analyze_text or analyze_text_file *)
(* has total_questions equal to the length of question_analysis,           *)
(* critical_questions equal to the number of its records of type critical  *)
(* and confirming_questions equal to the number of type confirming.        *)
(***************************************************************************)
C3_CountsMatchRecords ==
    result # None =>
        LET qs == result.question_analysis
            Of(tag) == {i \in 1..Len(qs) : qs[i].question_type.value = tag}
        IN /\ result.total_questions = Len(qs)
           /\ result.critical_questions = Cardinality(Of("critical"))
           /\ result.confirming_questions = Cardinality(Of("confirming"))

\* a result with one critical and one confirming question
C3_Witness ==
    /\ pc = "done"
    /\ result # None
    /\ result.total_questions = 2
    /\ result.critical_questions = 1
    /\ result.confirming_questions = 1

(***************************************************************************)
(* C4.  A failure of one facet (a gateway exception or an undecodable      *)
(* reply) does not abort the analysis: no exception leaves the call, and   *)
(* when the call has ended the request of every later facet was issued and *)
(* the records decoded from the later facets' replies are in the result.   *)
(***************************************************************************)
C4_FailureDoesNotAbort ==
    \A f \in RecordFacets :
        (outcomes[f] # Pending /\ Failed(f)) =>
            /\ pc # "raised"
            /\ pc = "done" =>
                   /\ result # None
                   /\ \A g \in Later(f) :
                          /\ outcomes[g] # Pending
                          /\ \E i \in 1..Len(requests) : Template(requests[i]) = g
                          /\ g \in RecordFacets =>
                                 ResultField(g) = FacetBody(g, outcomes[g]).ret

\* the question facet failed and the result holds bias and sentiment records
C4_Witness ==
    /\ pc = "done"
    /\ result # None
    /\ Failed("questions")
    /\ result.question_analysis = <<>>
    /\ result.biased_adjectives # <<>>
    /\ result.entity_sentiments # <<>>

(***************************************************************************)
(* C5.  An analyze_text call on a text issues exactly four gateway         *)
(* requests, one per facet, in the order questions, bias, sentiment,       *)
(* summary, whatever the outcome of each; none is repeated; the call       *)
(* always has a next step until it has returned a result.                  *)
(***************************************************************************)
C5_FourRequestsInOrder ==
    (call.method = "analyze_text" /\ text.py = "str") =>
        /\ pc \in {"questions", "bias", "sentiment", "summary", "return", "done"}
        /\ Len(requests) = Completed(pc)
        /\ \A i \in 1..Len(requests) : Template(requests[i]) = FacetOrder[i]
        /\ \A i \in 1..Len(requests) : outcomes[FacetOrder[i]] # Pending
        /\ pc = "done" => (result # None /\ raised = "")
        /\ pc # "done" => ENABLED Next

\* a call all of whose four requests raised has returned after four requests
C5_Witness ==
    /\ pc = "done"
    /\ call.method = "analyze_text"
    /\ Len(requests) = 4
    /\ \A f \in DOMAIN outcomes : outcomes[f].kind = "raise"
    /\ result # None

(***************************************************************************)
(* C6.  When the gateway call of the questions, bias or sentiment facet    *)
(* raises (or its response envelope cannot be read), the facet returns an  *)
(* empty sequence and no exception leaves the facet.                       *)
(***************************************************************************)
C6_GatewayErrorYieldsEmpty ==
    \A f \in RecordFacets :
        outcomes[f].kind \in {"raise", "nochoices", "none"} =>
            /\ FacetRecords(f) = <<>>
            /\ raised = ""
            /\ pc # "raised"

\* the bias facet called alone absorbed a bad-status error of the gateway
C6_Witness ==
    /\ pc = "done"
    /\ call.method = "bias"
    /\ outcomes["bias"] = Raise("APIError")
    /\ bias_analysis = <<>>
    /\ raised = ""

(***************************************************************************)
(* C7.  For each of the three record facets a reply that is empty or only  *)
(* whitespace yields an empty sequence and raises nothing.                 *)
(***************************************************************************)
C7_BlankReplyYieldsEmpty ==
    \A f \in RecordFacets :
        (outcomes[f].kind = "text" /\ Blank(outcomes[f].content)) =>
            /\ FacetRecords(f) = <<>>
            /\ raised = ""
            /\ pc # "raised"

\* the sentiment facet called alone was given a whitespace-only reply
C7_Witness ==
    /\ pc = "done"
    /\ call.method = "sentiment"
    /\ outcomes["sentiment"] = Text(<<WS, WS>>)
    /\ sentiment_analysis = <<>>

(***************************************************************************)
(* C8.  For each of the three record facets a non-empty reply that is not  *)
(* one JSON value (prose, JSON wrapped in other text, truncated JSON)      *)
(* yields an empty sequence and raises nothing.                            *)
(***************************************************************************)
C8_UnparsableReplyYieldsEmpty ==
    \A f \in RecordFacets :
        (/\ outcomes[f].kind = "text"
         /\ ~Blank(outcomes[f].content)
         /\ ~SingleDocument(outcomes[f].content)) =>
            /\ FacetRecords(f) = <<>>
            /\ raised = ""
            /\ pc # "raised"

\* the question facet called alone was given its JSON wrapped in prose
C8_Witness ==
    /\ pc = "done"
    /\ call.method = "questions"
    /\ outcomes["questions"] =
           Text(<<Prose("Here is the JSON:"), Document("questions", <<qCritical>>)>>)
    /\ question_analysis = <<>>

(***************************************************************************)
(* C9.  For each of the three record facets a reply that is a JSON object  *)
(* without the facet's key yields an empty sequence and is no error:       *)
(* nothing is raised and the facet logs no warning and no error.           *)
(***************************************************************************)
C9_MissingKeyYieldsEmpty ==
    \A f \in RecordFacets :
        (/\ ReplyObject(outcomes[f])
         /\ FacetKey(f) \notin DOMAIN DocumentOf(outcomes[f].content).o) =>
            /\ FacetRecords(f) = <<>>
            /\ raised = ""
            /\ pc # "raised"
            /\ \A i \in 1..Len(log) : log[i].facet # f

\* the bias facet called alone was given an object without biased_adjectives
C9_Witness ==
    /\ pc = "done"
    /\ call.method = "bias"
    /\ outcomes["bias"] = Text(<<Json(KeyObj("result", JArr(<<bFull>>)))>>)
    /\ bias_analysis = <<>>

(***************************************************************************)
(* C10.  The records a facet returns are in the order of the entries they  *)
(* were decoded from, and no entry yields more than one record: the k-th   *)
(* record is the record of the k-th entry that decodes.                    *)
(***************************************************************************)
C10_RecordsKeepEntryOrder ==
    \A f \in RecordFacets :
        HasEntries(f, outcomes[f]) =>
            LET a == EntriesOf(f, outcomes[f])
                kept == {i \in 1..Len(a) : Entry(f, a[i]).ok}
                kth(k) == CHOOSE i \in kept : Cardinality({j \in kept : j < i}) = k - 1
            IN /\ Len(FacetRecords(f)) = Cardinality(kept)
               /\ \A k \in 1..Len(FacetRecords(f)) :
                      FacetRecords(f)[k] = Entry(f, a[kth(k)]).rec

\* three entries, the middle one dropped, the other two returned in order
C10_Witness ==
    /\ pc = "done"
    /\ call.method = "bias"
    /\ outcomes["bias"] = Text(<<Document("bias", <<bMinimal, bNotObject, bFull>>)>>)
    /\ bias_analysis = <<BiasEntry(bMinimal).rec, BiasEntry(bFull).rec>>

(***************************************************************************)
(* C11.  A decoded record carries, for every field the entry omits, the    *)
(* default (the empty string, confidence 0.0, an empty supporting_quotes   *)
(* list) and, for every field the entry holds, the entry's value           *)
(* unchanged; a confidence outside [0, 1] is kept as it is.                *)
(***************************************************************************)
\* <<field of the record, key of the entry, default>> for the copied fields
CopiedFields(f) ==
    CASE f = "questions" ->
           {<<"question_text", "question", JStr("")>>, <<"confidence", "confidence", JNum(0)>>,
            <<"reasoning", "reasoning", JStr("")>>, <<"context", "context", JStr("")>>}
      [] f = "bias" ->
           {<<"adjective", "adjective", JStr("")>>,
            <<"target_person", "target_person", JStr("")>>,
            <<"bias_type", "bias_type", JStr("")>>, <<"confidence", "confidence", JNum(0)>>,
            <<"reasoning", "reasoning", JStr("")>>, <<"context", "context", JStr("")>>}
      [] f = "sentiment" ->
           {<<"entity_name", "entity_name", JStr("")>>,
            <<"entity_type", "entity_type", JStr("")>>,
            <<"confidence", "confidence", JNum(0)>>,
            <<"reasoning", "reasoning", JStr("")>>, <<"context", "context", JStr("")>>,
            <<"supporting_quotes", "supporting_quotes", JArr(<<>>)>>}

\* the entries of a that decode, and the index of the k-th of them
KeptEntries(f, a) == {i \in 1..Len(a) : Entry(f, a[i]).ok}
KthKept(f, a, k) ==
    CHOOSE i \in KeptEntries(f, a) : Cardinality({j \in KeptEntries(f, a) : j < i}) = k - 1

C11_DefaultsAndCopies ==
    \A f \in RecordFacets :
        HasEntries(f, outcomes[f]) =>
            LET a == EntriesOf(f, outcomes[f])
            IN /\ Len(FacetRecords(f)) = Cardinality(KeptEntries(f, a))
               /\ \A k \in 1..Len(FacetRecords(f)) :
                      LET e == a[KthKept(f, a, k)]
                          rec == FacetRecords(f)[k]
                      IN \A c \in CopiedFields(f) :
                             /\ DOMAIN rec = {x[1] : x \in CopiedFields(f)}
                                               \cup (IF f = "questions" THEN {"question_type"}
                                                     ELSE IF f = "sentiment" THEN {"sentiment"}
                                                     ELSE {})
                             /\ rec[c[1]] = IF c[2] \in DOMAIN e.o THEN e.o[c[2]] ELSE c[3]

\* a confidence of 1.5 kept, and an entry with only its tag and text defaulted
C11_Witness ==
    /\ pc = "done"
    /\ call.method = "questions"
    /\ outcomes["questions"] = Text(<<Document("questions", <<qFollowUp, qConfirming>>)>>)
    /\ Len(question_analysis) = 2
    /\ question_analysis[1].confidence = JNum(150)
    /\ question_analysis[1].reasoning = JStr("")
    /\ question_analysis[2].confidence = JNum(0)
    /\ question_analysis[2].context = JStr("")

(***************************************************************************)
(* C12.  When the reply to the question facet is the text                  *)
(* {"questions": []}, the question sequence is empty, nothing is logged    *)
(* for the facet, and the result has total_questions 0 and no `error` key  *)
(* in its metadata.                                                        *)
(***************************************************************************)
C12_EmptyQuestionsReply ==
    outcomes["questions"] = Text(<<Document("questions", <<>>)>>) =>
        /\ question_analysis = <<>>
        /\ raised = ""
        /\ \A i \in 1..Len(log) : log[i].facet # "questions"
        /\ pc = "done" =>
               /\ result # None
               /\ result.total_questions = 0
               /\ result.question_analysis = <<>>
               /\ "error" \notin DOMAIN result.metadata

\* an analysis whose question reply was {"questions": []} has returned
C12_Witness ==
    /\ pc = "done"
    /\ call.method \in {"analyze_text", "analyze_text_file"}
    /\ outcomes["questions"] = Text(<<Document("questions", <<>>)>>)
    /\ result # None
    /\ result.total_questions = 0

(***************************************************************************)
(* Vocabulary of the diarizer's properties.                                *)
(***************************************************************************)
InDiarize == dcall # None /\ dcall.method = "diarize"
\* the runs of diarize.py among the subprocesses of the call: the only ones
\* given a working directory
DiarizeRuns == {i \in 1..Len(spawned) : spawned[i].cwd # None}
Nonzero(outcome) == outcome.kind = "exit" /\ outcome.returncode # 0
Unavailable(outcome) ==
    Nonzero(outcome) \/ (outcome.kind = "launch" /\ outcome.exc = "FileNotFoundError")

(***************************************************************************)
(* C13.  When diarize on a video file returns or raises after the          *)
(* diarization subprocess was started (whether it exited zero, exited      *)
(* nonzero or could not be launched), the temporary audio file that the    *)
(* extraction produced no longer exists.                                   *)
(***************************************************************************)
C13_TempFileGoneAtExit ==
    (InDiarize /\ dpc \in {"returned", "raised"} /\ temp_audio_file # None) =>
        /\ is_video_file(dcall.audio_file)
        /\ DiarizeRuns # {}
        /\ temp_audio_file.s \notin tmp_files

\* diarize.py could not be launched on the audio extracted from a video
C13_Witness ==
    /\ InDiarize
    /\ dpc = "raised"
    /\ temp_audio_file # None
    /\ Len(spawned) = 3
    /\ spawned[3].outcome = CannotLaunch("FileNotFoundError")
    /\ draised.exc = "FileNotFoundError"
    /\ tmp_files = {}

(***************************************************************************)
(* C14.  When the version probe of ffmpeg finds it unavailable (not found, *)
(* or a nonzero exit), the step that ran the probe ends diarize with a     *)
(* RuntimeError: the probe is the only subprocess of the call, so          *)
(* diarize.py is never started, and the set of temporary files is what it  *)
(* was.                                                                    *)
(***************************************************************************)
C14_NoFfmpegFailsEarly ==
    [][(dpc = "probe" /\ Len(spawned') = Len(spawned) + 1
        /\ Unavailable(spawned'[Len(spawned')].outcome)) =>
           /\ dpc' = "raised"
           /\ draised'.exc = "RuntimeError"
           /\ spawned' = <<[cmd |-> FfmpegVersionCmd, cwd |-> None,
                            outcome |-> spawned'[1].outcome]>>
           /\ tmp_files' = tmp_files
           /\ temp_audio_file' = None
           /\ dresult' = None]_vars

\* ffmpeg was not found when a video was handed to diarize
C14_Witness ==
    /\ InDiarize
    /\ is_video_file(dcall.audio_file)
    /\ dpc = "raised"
    /\ Len(spawned) = 1
    /\ spawned[1].outcome = CannotLaunch("FileNotFoundError")
    /\ draised.exc = "RuntimeError"
    /\ tmp_files = {}

(***************************************************************************)
(* C15.  Constructed without an explicit path, the diarizer selects the    *)
(* first candidate, in order, that holds all three required files, and     *)
(* raises FileNotFoundError only when no candidate holds them.             *)
(***************************************************************************)
CompleteCandidates ==
    {i \in 1..Len(possible_paths) : RequiredFiles \subseteq repo[possible_paths[i]]}

C15_FirstCompleteCandidate ==
    (dpc \in {"constructed", "failed"} /\ dcall.whisper_diarization_path = None) =>
        IF CompleteCandidates = {}
        THEN dpc = "failed" /\ draised.exc = "FileNotFoundError"
        ELSE /\ dpc = "constructed"
             /\ \E i \in CompleteCandidates :
                    /\ \A j \in CompleteCandidates : i <= j
                    /\ diarizer.whisper_diarization_path = possible_paths[i]

(***************************************************************************)
(* C16.  A run of diarize.py that exits with a nonzero status is the only  *)
(* run of the call and ends it with a RuntimeError whose message carries   *)
(* the captured stderr; no DiarizationResult is returned.                  *)
(***************************************************************************)
C16_NonzeroExitRaises ==
    \A i \in DiarizeRuns :
        Nonzero(spawned[i].outcome) =>
            /\ dpc = "raised"
            /\ draised = [exc |-> "RuntimeError",
                          msg |-> <<"Diarization failed: ", spawned[i].outcome.stderr>>]
            /\ dresult = None
            /\ DiarizeRuns = {i}
            /\ i = Len(spawned)

\* diarize.py ran out of memory
C16_Witness ==
    /\ InDiarize
    /\ dpc = "raised"
    /\ DiarizeRuns # {}
    /\ spawned[Len(spawned)].outcome = Exited(1, "", "CUDA out of memory")
    /\ draised.msg = <<"Diarization failed: ", "CUDA out of memory">>

(***************************************************************************)
(* C17.  A run of diarize.py that exits with status zero makes diarize     *)
(* return a DiarizationResult whose speakers and transcription are empty   *)
(* whatever the run printed, and whose audio_file is the caller's path,    *)
(* also when the file processed was the extracted temporary one.           *)
(***************************************************************************)
C17_PlaceholderResult ==
    /\ dpc = "returned" =>
           /\ dresult # None
           /\ dresult.speakers = <<>>
           /\ dresult.transcription = <<>>
           /\ dresult.audio_file = dcall.audio_file
    /\ \A i \in DiarizeRuns :
           (spawned[i].outcome.kind = "exit" /\ spawned[i].outcome.returncode = 0) =>
               dpc = "returned"

\* a video whose extracted audio was processed, with output on stdout
C17_Witness ==
    /\ InDiarize
    /\ dpc = "returned"
    /\ dcall.audio_file = "DEBATE.MKV"
    /\ temp_audio_file # None
    /\ spawned[3].cmd[4] = temp_audio_file.s
    /\ spawned[3].outcome.stdout = "Speaker 0: hallo"
    /\ dresult.audio_file = "DEBATE.MKV"
    /\ dresult.speakers = <<>>

(***************************************************************************)
(* C18.  For a subtitle file made of blocks, parse_srt_file returns the    *)
(* text lines of all blocks, in order, joined by single spaces: no text    *)
(* line is lost.  (A text line is taken without the white space around     *)
(* it.)                                                                    *)
(***************************************************************************)
RECURSIVE TextOfBlocks(_, _)
TextOfBlocks(blocks, k) ==
    IF k > Len(blocks) THEN <<>>
    ELSE [j \in 1..Len(blocks[k]) |-> StrStrip(blocks[k][j])] \o TextOfBlocks(blocks, k + 1)

C18_EveryTextLineKept ==
    (srt_pc = "done" /\ srt_file.kind \in {"utf8", "latin1"}) =>
        /\ srt_ret.ok
        /\ srt_ret.ret = SpaceJoin(TextOfBlocks(srt_file.blocks, 1))

(***************************************************************************)
(* C19.  Every gateway request of the analyzer is sent under the key and   *)
(* the endpoint its own construction established, whatever analyzers are   *)
(* constructed beside it.                                                  *)
(***************************************************************************)
C19_NoSharedCredentials ==
    \A i \in 1..Len(credentials) :
        /\ credentials[i].api_key = Arg(init_args, "api_key", None)
        /\ credentials[i].api_base = Arg(init_args, "base_url", None)

(***************************************************************************)
(* C20.  The analyzer's model_name, language and temperature are the       *)
(* constructor's arguments (gpt-4, Dutch and 0.1 when omitted) in every    *)
(* state, and they are the values carried by every gateway request and by  *)
(* the metadata of every result.                                           *)
(***************************************************************************)
C20_ConfigurationIsFixed ==
    /\ self.model_name = (IF "model_name" \in DOMAIN init_args THEN init_args.model_name
                          ELSE "gpt-4")
    /\ self.language = (IF "language" \in DOMAIN init_args THEN init_args.language
                        ELSE "Dutch")
    /\ self.temperature = (IF "temperature" \in DOMAIN init_args THEN init_args.temperature
                           ELSE 10)
    /\ \A i \in 1..Len(requests) :
           /\ requests[i].model = self.model_name
           /\ requests[i].temperature = self.temperature
           /\ requests[i].messages[1].content.language = self.language
    /\ result # None =>
           /\ result.metadata.model_used = self.model_name
           /\ result.metadata.language = self.language
           /\ result.metadata.temperature = self.temperature

\* a second call of an analyzer constructed with its own model, language and
\* temperature has issued its four requests and returned
C20_Witness ==
    /\ pc = "done"
    /\ init_args # <<>>
    /\ Len(requests) = 4
    /\ requests[4].model = "gpt-3.5-turbo"
    /\ requests[1].messages[1].content.language = "English"
    /\ result # None
    /\ result.metadata = [model_used |-> "gpt-3.5-turbo", language |-> "English",
                          temperature |-> 50]

(***************************************************************************)
(* C21.  Every member of QuestionType and of SentimentType compares equal  *)
(* to its string tag, the members held by the decoded records included.    *)
(***************************************************************************)
C21_MembersEqualTheirTags ==
    /\ \A tag \in QuestionTags : EnumEq(EnumMember("QuestionType", tag), PyStr(tag))
    /\ \A tag \in SentimentTags : EnumEq(EnumMember("SentimentType", tag), PyStr(tag))
    /\ \A k \in 1..Len(question_analysis) :
           EnumEq(question_analysis[k].question_type,
                  PyStr(question_analysis[k].question_type.value))
    /\ \A k \in 1..Len(sentiment_analysis) :
           EnumEq(sentiment_analysis[k].sentiment,
                  PyStr(sentiment_analysis[k].sentiment.value))

(***************************************************************************)
(* C23.  analyze_text_file on a path that does not exist raises            *)
(* FileNotFoundError at once: no gateway request is issued, nothing is     *)
(* logged and no result is returned.                                       *)
(***************************************************************************)
C23_MissingFileRaises ==
    (call.method = "analyze_text_file" /\ Files[call.source].kind = "missing") =>
        /\ pc = "raised"
        /\ raised = "FileNotFoundError"
        /\ requests = <<>>
        /\ \A f \in DOMAIN outcomes : outcomes[f] = Pending
        /\ result = None
        /\ text = None
        /\ log = <<>>

\* analyze_text_file("missing.txt") has raised
C23_Witness ==
    /\ call = [method |-> "analyze_text_file", source |-> "missing.txt"]
    /\ pc = "raised"
    /\ raised = "FileNotFoundError"
    /\ requests = <<>>

(***************************************************************************)
(* C24.  Every run of diarize.py is given the interpreter and the script,  *)
(* then -a <file> --whisper-model <name> --device <device>                 *)
(* --batch-size <int>, then --suppress_numerals exactly when               *)
(* suppress_numerals is true, then --language <code> exactly when a        *)
(* language (a non-empty string) was given; its working directory is the   *)
(* tool's directory, and <file> is the temporary audio file exactly when   *)
(* the input is a video, otherwise the caller's file.                      *)
(***************************************************************************)
C24_DiarizeCommandLine ==
    \A i \in DiarizeRuns :
        LET video == Lower(Media[dcall.audio_file].suffix) \in video_extensions
            file == IF video THEN temp_audio_file.s ELSE dcall.audio_file
        IN /\ video <=> temp_audio_file # None
           /\ video => file \in {TempNames[n] : n \in 1..Len(TempNames)}
           /\ spawned[i].cwd = PyStr(diarizer.whisper_diarization_path)
           /\ spawned[i].cmd =
                  <<"sys.executable", ScriptPath(diarizer.whisper_diarization_path),
                    "-a", file, "--whisper-model", dcall.whisper_model,
                    "--device", dcall.device, "--batch-size", IntStr(dcall.batch_size)>>
                  \o (IF dcall.suppress_numerals = TRUE THEN <<"--suppress_numerals">>
                      ELSE <<>>)
                  \o (IF dcall.language \notin {None, PyStr("")}
                      THEN <<"--language", dcall.language.s>> ELSE <<>>)

\* a video diarized in Dutch by the repository found under the working directory
C24_Witness ==
    /\ InDiarize
    /\ dpc = "returned"
    /\ dcall.audio_file = "debate.mp4"
    /\ Len(spawned) = 3
    /\ spawned[3].cwd = PyStr("cwd/whisper-diarization")
    /\ spawned[3].cmd = <<"sys.executable", "cwd/whisper-diarization/diarize.py",
                          "-a", "/tmp/tmpa.wav", "--whisper-model", "large-v3",
                          "--device", "cuda", "--batch-size", "16", "--language", "nl">>

(***************************************************************************)
(* C30.  When ffmpeg is there but the extraction run exits with a nonzero  *)
(* status, diarize raises a RuntimeError that names the extraction         *)
(* failure, the temporary file made for the extraction does not exist, and *)
(* diarize.py is never started.                                            *)
(***************************************************************************)
ExtractionRuns == {i \in 1..Len(spawned) : spawned[i].cmd[2] = "-i"}

C25_FailuresLeaveNoTrace ==
    (call.method = "analyze_text" /\ pc = "done" /\ text.py = "str") =>
        /\ Len(requests) = 4
        /\ result # None
        /\ DOMAIN result.metadata = {"model_used", "language", "temperature"}
        /\ DOMAIN result = {"text_file_path", "total_questions", "critical_questions",
                            "confirming_questions", "biased_adjectives",
                            "entity_sentiments", "question_analysis", "summary",
                            "metadata"}
        /\ \A f \in RecordFacets : Failed(f) => ResultField(f) = <<>>
        /\ Failed("questions") =>
               /\ result.total_questions = 0
               /\ result.critical_questions = 0
               /\ result.confirming_questions = 0

\* all four gateway calls of one analyze_text call failed
C25_Witness ==
    /\ call.method = "analyze_text"
    /\ pc = "done"
    /\ \A f \in RecordFacets : outcomes[f] = Raise("APIConnectionError")
    /\ outcomes["summary"] = Raise("APIConnectionError")
    /\ Len(requests) = 4
    /\ "error" \notin DOMAIN result.metadata

(***************************************************************************)
(* C26.  A facet whose reply is one JSON document that is not an object,   *)
(* or an object whose expected key holds a value that is not an array,     *)
(* returns the empty sequence and does not raise.                          *)
(***************************************************************************)
NotAnObject(o) ==
    /\ o.kind = "text"
    /\ SingleDocument(o.content)
    /\ DocumentOf(o.content).t # "obj"

KeyNotAnArray(f, o) ==
    /\ ReplyObject(o)
    /\ FacetKey(f) \in DOMAIN DocumentOf(o.content).o
    /\ DocumentOf(o.content).o[FacetKey(f)].t # "arr"

C26_WrongShapeYieldsEmpty ==
    \A f \in RecordFacets :
        (NotAnObject(outcomes[f]) \/ KeyNotAnArray(f, outcomes[f])) =>
            /\ FacetRecords(f) = <<>>
            /\ raised = ""
            /\ pc = "done"

\* the sentiment reply held a string where the array was expected
C26_Witness ==
    /\ pc = "done"
    /\ call.method = "sentiment"
    /\ outcomes["sentiment"] = Text(<<Json(KeyObj("entity_sentiments", JStr("n/a")))>>)
    /\ sentiment_analysis = <<>>
    /\ Len(log) = 3

(***************************************************************************)
(* C27.  A question entry without a `type` key and a sentiment entry       *)
(* without a `sentiment` key are not dropped: each is decoded into a       *)
(* record whose category / polarity is the neutral member.                 *)
(***************************************************************************)
\* an object whose tag, if it has one, is one of the enumeration's four
WellTagged(f, e) == e.t = "obj" /\ ~BadTag(f, e)

C27_MissingTagIsNeutral ==
    \A f \in {"questions", "sentiment"} :
        HasEntries(f, outcomes[f]) =>
            LET a == EntriesOf(f, outcomes[f])
                field == IF f = "questions" THEN "question_type" ELSE "sentiment"
                cls == IF f = "questions" THEN "QuestionType" ELSE "SentimentType"
            IN \A i \in 1..Len(a) :
                   (a[i].t = "obj" /\ TagKey(f) \notin DOMAIN a[i].o) =>
                       LET k == Cardinality({j \in 1..i : WellTagged(f, a[j])})
                       IN /\ k <= Len(FacetRecords(f))
                          /\ FacetRecords(f)[k][field] = [t |-> "enum", cls |-> cls,
                                                           value |-> "neutral"]

\* an untagged question decoded after one that was dropped for its tag
C27_Witness ==
    /\ pc = "done"
    /\ call.method = "questions"
    /\ outcomes["questions"] = Text(<<Document("questions", <<qBadTag, qNoTag>>)>>)
    /\ Len(question_analysis) = 1
    /\ question_analysis[1].question_text = JStr("Q4")
    /\ question_analysis[1].question_type.value = "neutral"

(***************************************************************************)
(* C28.  The summary of every result is a non-empty text without white     *)
(* space around it: a blank summary reply and a failed summary call are    *)
(* each replaced by their fixed message, and such a failure leaves every   *)
(* other field of the result what the three facets made it.                *)
(***************************************************************************)
SummaryFailed == outcomes["summary"].kind \in {"raise", "nochoices", "none"}
SummaryBlank == outcomes["summary"].kind = "text" /\ Blank(outcomes["summary"].content)

C28_SummaryNeverEmpty ==
    (pc = "done" /\ result # None) =>
        /\ result.summary # <<>>
        /\ result.summary[1] # WS
        /\ result.summary[Len(result.summary)] # WS
        /\ SummaryFailed =>
               result.summary = <<Prose("Kon geen samenvatting maken vanwege een fout.")>>
        /\ SummaryBlank =>
               result.summary =
                   <<Prose("Kon geen samenvatting maken - lege reactie van het model.")>>
        /\ (SummaryFailed \/ SummaryBlank) =>
               /\ result.question_analysis = question_analysis
               /\ result.biased_adjectives = bias_analysis
               /\ result.entity_sentiments = sentiment_analysis
               /\ result.total_questions = Len(question_analysis)
               /\ result.text_file_path = call.source
               /\ DOMAIN result.metadata = {"model_used", "language", "temperature"}

\* the summary call failed after the question facet had found two questions
C28_Witness ==
    /\ pc = "done"
    /\ outcomes["summary"] = Raise("APIConnectionError")
    /\ result # None
    /\ result.total_questions = 2
    /\ result.summary = FailedSummaryText

(***************************************************************************)
(* C29.  For a readable file with content T, analyze_text_file issues the  *)
(* requests and returns the result that analyze_text(T) issues and returns *)
(* under the same gateway outcomes: in both methods the requests and every *)
(* field of the result but text_file_path are one function of T, the       *)
(* analyzer and the outcomes.                                              *)
(***************************************************************************)
\* the text a call is about: the argument, or the content of the file
TextOf(c) ==
    IF c.method = "analyze_text" THEN text ELSE PyStr(Files[c.source].content)

RequestsFor(T) ==
    <<CompletionRequest(self, get_question_analysis_prompt(T, self.language).prompt),
      CompletionRequest(self, get_bias_analysis_prompt(T, self.language).prompt),
      CompletionRequest(self, get_sentiment_analysis_prompt(T, self.language).prompt)>>

ResultFor(T, source) ==
    LET q == analyze_questions(self, T, outcomes["questions"]).ret
        b == analyze_bias(self, T, outcomes["bias"]).ret
        s == analyze_sentiment(self, T, outcomes["sentiment"]).ret
        sum == create_summary(self, SummaryInput(q, b, s), outcomes["summary"])
    IN [requests |-> RequestsFor(T) \o sum.sent,
        result |-> AnalysisResult(source, self, q, b, s, sum.ret)]

C29_FileMethodEqualsTextMethod ==
    (pc = "done" /\ call.method \in {"analyze_text", "analyze_text_file"}
     /\ text.py = "str") =>
        /\ call.source = (IF call.method = "analyze_text" THEN "direct_text_input"
                          ELSE call.source)
        /\ requests = ResultFor(TextOf(call), call.source).requests
        /\ result = ResultFor(TextOf(call), call.source).result

\* a file whose analysis found two questions has been analysed
C29_Witness ==
    /\ pc = "done"
    /\ call = [method |-> "analyze_text_file", source |-> "speech.txt"]
    /\ text = PyStr("T1")
    /\ Len(requests) = 4
    /\ result # None
    /\ result.total_questions = 2
    /\ result.text_file_path = "speech.txt"

(***************************************************************************)
(* C22.  A run of the command line that ends in an error leaves exit code  *)
(* 1 and exactly one error line on standard output, and a traceback is     *)
(* written only when the command line carried the verbose flag.            *)
(***************************************************************************)
EndedInError(p) == p.exit_code # 0 \/ p.traceback # <<>>

ErrorLines(p) ==
    {i \in 1..Len(p.stdout) : p.stdout[i].kind \in {"Error", "Operation cancelled by user."}}

C22_ErrorsExitWithOneLine ==
    (cli_pc = "exited" /\ EndedInError(process)) =>
        /\ process.exit_code = 1
        /\ Cardinality(ErrorLines(process)) = 1
        /\ process.traceback # <<>> => HasFlag(sys_argv, {"--verbose", "-v"})

=============================================================================
